---------------------------- MODULE Spec2Model ----------------------------
(***************************************************************************)
(* Model of the conditional form engine of the intake form wizard:         *)
(*   src/src/lib/genericConditionalValidator.ts  (generic engine)          *)
(*   src/src/lib/transitoConditionalValidator.ts (transito-only engine)    *)
(*   src/src/lib/useGenericConditionalForm.ts    (hook over the engine)    *)
(*   src/src/lib/useFormManager.ts               (host snapshot)           *)
(*   src/src/lib/formValidator.ts, validators.ts (validator-list pass)     *)
(*   src/src/lib/validationBuilder.ts            (validators of a field)   *)
(*   src/src/lib/useFooterValidation.ts          (delivery email footer)   *)
(*   src/src/lib/useAutoFill.ts, mockData.ts     (development auto-fill)   *)
(*   src/src/App.tsx                             (submit handler)          *)
(*   src/unnamed/part_004                        (peticion completeness)   *)
(*   src/src/services/formSubmissionService.ts   (webhook submission)      *)
(*                                                                         *)
(* Encoding of JavaScript values:                                          *)
(*   a string      [str |-> <<"a", "b">>]   (sequence of characters)       *)
(*   an array      [arr |-> << v1, v2 >>]   (sequence of encoded values)   *)
(*   undefined     Undefined                                               *)
(*   an object     a function from its keys; a key that is absent reads    *)
(*                 as Undefined (see Get). Where the code enumerates an    *)
(*                 object (Object.keys, Object.entries), the keys in the   *)
(*                 order of their insertion are kept beside the object:    *)
(*                 formDataKeys for the transito data, the keys given with *)
(*                 a schema or with form data, the keys field of a         *)
(*                 promptContent                                           *)
(* A rule is a record [dependsOn, when, type] with an optional matchMode   *)
(* field; an entry of the rule map is [one |-> rule] (a single rule) or    *)
(* [many |-> <<rule, ...>>] (an array of rules).                           *)
(***************************************************************************)
EXTENDS Integers, Sequences, FiniteSets, TLC

VARIABLES formData, formDataKeys, formConfiguration, formConfigurationKeys,
          conditionalFields, result, app, service

vars ==
  <<formData, formDataKeys, formConfiguration, formConfigurationKeys,
    conditionalFields, result, app, service>>

\* the schema, the order of its keys and the rule map: what the hook is
\* given, which no handler changes
configuration == <<formConfiguration, formConfigurationKeys, conditionalFields>>

(***************************************************************************)
(* JavaScript value layer                                                  *)
(***************************************************************************)
Undefined == [undef |-> TRUE]

Str(chars) == [str |-> chars]

Arr(items) == [arr |-> items]

isString(v) == DOMAIN v = {"str"}

isArray(v) == DOMAIN v = {"arr"}

Get(obj, key) == IF key \in DOMAIN obj THEN obj[key] ELSE Undefined

\* JavaScript truthiness: undefined and '' are falsy, every array is truthy.
Truthy(v) == IF isString(v) THEN v.str # <<>> ELSE isArray(v)

UpperLetters ==
  <<"A", "B", "C", "D", "E", "F", "G", "H", "I", "J", "K", "L", "M",
    "N", "O", "P", "Q", "R", "S", "T", "U", "V", "W", "X", "Y", "Z">>

LowerLetters ==
  <<"a", "b", "c", "d", "e", "f", "g", "h", "i", "j", "k", "l", "m",
    "n", "o", "p", "q", "r", "s", "t", "u", "v", "w", "x", "y", "z">>

UpperSet == {UpperLetters[i] : i \in DOMAIN UpperLetters}

LowerOf ==
  [c \in UpperSet |->
     LowerLetters[CHOOSE i \in DOMAIN UpperLetters : UpperLetters[i] = c]]

\* String.prototype.toLowerCase on a sequence of characters
toLowerCase(s) ==
  [i \in DOMAIN s |-> IF s[i] \in UpperSet THEN LowerOf[s[i]] ELSE s[i]]

\* String.prototype.includes: w occurs in s as a contiguous substring
includes(s, w) ==
  \E i \in 0..(Len(s) - Len(w)) : SubSeq(s, i + 1, i + Len(w)) = w

WhiteSpace == {" "}

\* String.prototype.trim
RECURSIVE trimStart(_)
trimStart(s) ==
  IF s # <<>> /\ Head(s) \in WhiteSpace THEN trimStart(Tail(s)) ELSE s

RECURSIVE trimEnd(_)
trimEnd(s) ==
  IF s # <<>> /\ s[Len(s)] \in WhiteSpace
    THEN trimEnd(SubSeq(s, 1, Len(s) - 1))
    ELSE s

trim(s) == trimEnd(trimStart(s))

\* String(value): a string is itself, undefined is 'undefined', an array is
\* its elements' strings joined by ','
RECURSIVE String(_)
RECURSIVE join(_)
join(items) ==
  IF items = <<>> THEN <<>>
  ELSE IF Len(items) = 1 THEN String(items[1])
  ELSE String(items[1]) \o <<",">> \o join(Tail(items))

String(v) ==
  IF isString(v) THEN v.str
  ELSE IF isArray(v) THEN join(v.arr)
  ELSE <<"u", "n", "d", "e", "f", "i", "n", "e", "d">>

\* the two fields of the engine's schemas
FieldOrder == <<"procedureType", "virtualAudienceReason">>

\* Object.keys of {...prev, [fieldId]: value}: a key that prev has keeps its
\* place, a new key comes last
insertKey(keys, fieldId) ==
  IF \E i \in DOMAIN keys : keys[i] = fieldId THEN keys ELSE Append(keys, fieldId)

\* the keys after an update of each of fieldIds in turn
RECURSIVE insertKeys(_, _)
insertKeys(keys, fieldIds) ==
  IF fieldIds = <<>> THEN keys
  ELSE insertKeys(insertKey(keys, Head(fieldIds)), Tail(fieldIds))

\* the orders in which the keys K can have been inserted
Orderings(K) ==
  {s \in [1..Cardinality(K) -> K] : \A i, j \in DOMAIN s : i # j => s[i] # s[j]}

SeqToSet(s) == {s[i] : i \in DOMAIN s}

(***************************************************************************)
(* Generic engine: genericConditionalValidator.ts                          *)
(***************************************************************************)
\* rule.matchMode || 'exact'
matchModeOf(rule) ==
  IF "matchMode" \in DOMAIN rule THEN rule.matchMode ELSE "exact"

\* rule.dependsOn as a property key: a rule without dependsOn reads the key
\* 'undefined'
dependsOnKey(rule) ==
  IF "dependsOn" \in DOMAIN rule THEN rule.dependsOn ELSE "undefined"

\* a snapshot read without the '' fallback: String(formData[rule.dependsOn])
fieldValueOf_noFallback(rule, data) == String(Get(data, dependsOnKey(rule)))

\* String(formData[rule.dependsOn] || '')
fieldValueOf(rule, data) ==
  LET raw == Get(data, dependsOnKey(rule))
  IN  IF Truthy(raw) THEN String(raw) ELSE <<>>

\* containsAll decided by some candidate instead of every candidate
containsAllMatch_anyCandidate(when, fieldValue) ==
  IF isArray(when)
    THEN \E i \in DOMAIN when.arr :
           includes(toLowerCase(fieldValue), toLowerCase(String(when.arr[i])))
    ELSE includes(toLowerCase(fieldValue), toLowerCase(String(when)))

\* case 'containsAll'
containsAllMatch(when, fieldValue) ==
  IF isArray(when)
    THEN LET lowerFieldValue == toLowerCase(fieldValue)
         IN  \A i \in DOMAIN when.arr :
               includes(lowerFieldValue, toLowerCase(String(when.arr[i])))
    ELSE includes(toLowerCase(fieldValue), toLowerCase(String(when)))

\* a single trigger compared without lower-casing it
containsMatch_scalarKeepsCase(when, fieldValue) ==
  IF isArray(when)
    THEN \E i \in DOMAIN when.arr :
           includes(toLowerCase(fieldValue), toLowerCase(String(when.arr[i])))
    ELSE includes(toLowerCase(fieldValue), String(when))

\* contains over an empty list taken as satisfied
containsMatch_emptyListMatches(when, fieldValue) ==
  IF isArray(when)
    THEN when.arr = <<>>
         \/ \E i \in DOMAIN when.arr :
              includes(toLowerCase(fieldValue), toLowerCase(String(when.arr[i])))
    ELSE includes(toLowerCase(fieldValue), toLowerCase(String(when)))

\* case 'contains'
containsMatch(when, fieldValue) ==
  IF isArray(when)
    THEN LET lowerFieldValue == toLowerCase(fieldValue)
         IN  \E i \in DOMAIN when.arr :
               includes(lowerFieldValue, toLowerCase(String(when.arr[i])))
    ELSE includes(toLowerCase(fieldValue), toLowerCase(String(when)))

\* exact mode that folds case
exactMatch_ignoresCase(when, fieldValue) ==
  LET whenValues == IF isArray(when) THEN when.arr ELSE <<when>>
  IN  \E i \in DOMAIN whenValues :
        toLowerCase(String(whenValues[i])) = toLowerCase(fieldValue)

\* case 'exact' and default
exactMatch(when, fieldValue) ==
  LET whenValues == IF isArray(when) THEN when.arr ELSE <<when>>
  IN  \E i \in DOMAIN whenValues : whenValues[i] = Str(fieldValue)

evaluateGenericCondition(rule, data) ==
  LET fieldValue == fieldValueOf(rule, data)
      matchMode == matchModeOf(rule)
  IN  CASE matchMode = "containsAll" -> containsAllMatch(rule.when, fieldValue)
        [] matchMode = "contains" -> containsMatch(rule.when, fieldValue)
        [] OTHER -> exactMatch(rule.when, fieldValue)

\* Array.isArray(rules) ? rules : [rules]
ruleArrayOf(rules) == IF DOMAIN rules = {"many"} THEN rules.many ELSE <<rules.one>>

\* show rules combined with OR
shouldShowGenericField_anyShowRule(fieldName, data, cond) ==
  IF fieldName \notin DOMAIN cond THEN TRUE
  ELSE LET ruleArray == ruleArrayOf(cond[fieldName])
           showRules == SelectSeq(ruleArray, LAMBDA rule : rule.type = "show")
       IN  IF Len(showRules) = 0 THEN TRUE
           ELSE \E i \in DOMAIN showRules :
                  evaluateGenericCondition(showRules[i], data)

\* rules of every kind taken as show rules
shouldShowGenericField_allRuleKinds(fieldName, data, cond) ==
  IF fieldName \notin DOMAIN cond THEN TRUE
  ELSE LET ruleArray == ruleArrayOf(cond[fieldName])
       IN  IF Len(ruleArray) = 0 THEN TRUE
           ELSE \A i \in DOMAIN ruleArray :
                  evaluateGenericCondition(ruleArray[i], data)

shouldShowGenericField(fieldName, data, cond) ==
  IF fieldName \notin DOMAIN cond THEN TRUE
  ELSE LET ruleArray == ruleArrayOf(cond[fieldName])
           showRules == SelectSeq(ruleArray, LAMBDA rule : rule.type = "show")
       IN  IF Len(showRules) = 0 THEN TRUE
           ELSE \A i \in DOMAIN showRules :
                  evaluateGenericCondition(showRules[i], data)

\* fieldConfig?.required === true
isBaseRequired(fieldName, cfg) ==
  /\ fieldName \in DOMAIN cfg
  /\ "required" \in DOMAIN cfg[fieldName]
  /\ cfg[fieldName].required = TRUE

\* require rules that replace the base flag instead of adding to it
isGenericFieldRequired_conditionalOnly(fieldName, data, cond, cfg) ==
  IF fieldName \in DOMAIN cond
    THEN LET ruleArray == ruleArrayOf(cond[fieldName])
             requireRules ==
               SelectSeq(ruleArray, LAMBDA rule : rule.type = "require")
         IN  IF Len(requireRules) > 0
               THEN \E i \in DOMAIN requireRules :
                      evaluateGenericCondition(requireRules[i], data)
               ELSE isBaseRequired(fieldName, cfg)
    ELSE isBaseRequired(fieldName, cfg)

\* requiredness that also counts the rules of kind show, as the
\* transito-only engine does
isGenericFieldRequired_countsShowRules(fieldName, data, cond, cfg) ==
  IF fieldName \in DOMAIN cond
    THEN LET ruleArray == ruleArrayOf(cond[fieldName])
             requireRules ==
               SelectSeq(ruleArray,
                         LAMBDA rule : rule.type \in {"require", "show"})
         IN  IF Len(requireRules) > 0
               THEN \/ isBaseRequired(fieldName, cfg)
                    \/ \E i \in DOMAIN requireRules :
                         evaluateGenericCondition(requireRules[i], data)
               ELSE isBaseRequired(fieldName, cfg)
    ELSE isBaseRequired(fieldName, cfg)

isGenericFieldRequired(fieldName, data, cond, cfg) ==
  IF fieldName \in DOMAIN cond
    THEN LET ruleArray == ruleArrayOf(cond[fieldName])
             requireRules ==
               SelectSeq(ruleArray, LAMBDA rule : rule.type = "require")
         IN  IF Len(requireRules) > 0
               THEN \/ isBaseRequired(fieldName, cfg)
                    \/ \E i \in DOMAIN requireRules :
                         evaluateGenericCondition(requireRules[i], data)
               ELSE isBaseRequired(fieldName, cfg)
    ELSE isBaseRequired(fieldName, cfg)

\* required fields filtered by visibility as well
getRequiredGenericFields_visibleOnly(data, cond, cfgKeys, cfg) ==
  SelectSeq(cfgKeys,
            LAMBDA fieldName :
              /\ isGenericFieldRequired(fieldName, data, cond, cfg)
              /\ shouldShowGenericField(fieldName, data, cond))

\* cfgKeys is Object.keys(formConfiguration)
getRequiredGenericFields(data, cond, cfgKeys, cfg) ==
  SelectSeq(cfgKeys,
            LAMBDA fieldName : isGenericFieldRequired(fieldName, data, cond, cfg))

\* `${fieldConfig.label} es requerido.`
requiredMessage(label) == <<label, " es requerido.">>

\* the value check without the trim: only !fieldValue
isValueMissing_noTrim(fieldValue) == ~Truthy(fieldValue)

\* !fieldValue || (typeof fieldValue === 'string' && fieldValue.trim() === '')
isValueMissing(fieldValue) ==
  \/ ~Truthy(fieldValue)
  \/ (isString(fieldValue) /\ trim(fieldValue.str) = <<>>)

EmptyObject == [k \in {} |-> Undefined]

EmptyResult ==
  [errors |-> EmptyObject, validatedFields |-> <<>>, skippedFields |-> <<>>]

\* a required field checked whether or not it is rendered
validateGenericField_ignoresRendering(acc, fieldName, data, cfg, cond) ==
  LET fieldConfig == cfg[fieldName]
      fieldValue == Get(data, fieldName)
      isFieldRendered == shouldShowGenericField(fieldName, data, cond)
      isFieldRequired == isGenericFieldRequired(fieldName, data, cond, cfg)
  IN  IF isFieldRequired
        THEN IF isValueMissing(fieldValue)
               THEN [acc EXCEPT !.errors =
                       (fieldName :> requiredMessage(fieldConfig.label)) @@ @]
               ELSE [acc EXCEPT !.validatedFields = Append(@, fieldName)]
        ELSE IF ~isFieldRendered
               THEN [acc EXCEPT !.skippedFields = Append(@, fieldName)]
               ELSE [acc EXCEPT !.validatedFields = Append(@, fieldName)]

\* a hidden field listed as validated instead of skipped
validateGenericField_hiddenAsValidated(acc, fieldName, data, cfg, cond) ==
  LET fieldConfig == cfg[fieldName]
      fieldValue == Get(data, fieldName)
      isFieldRendered == shouldShowGenericField(fieldName, data, cond)
      isFieldRequired == isGenericFieldRequired(fieldName, data, cond, cfg)
  IN  IF isFieldRequired /\ isFieldRendered
        THEN IF isValueMissing(fieldValue)
               THEN [acc EXCEPT !.errors =
                       (fieldName :> requiredMessage(fieldConfig.label)) @@ @]
               ELSE [acc EXCEPT !.validatedFields = Append(@, fieldName)]
        ELSE [acc EXCEPT !.validatedFields = Append(@, fieldName)]

\* a visible field that is not required skipped instead of listed as validated
validateGenericField_skipsOptional(acc, fieldName, data, cfg, cond) ==
  LET fieldConfig == cfg[fieldName]
      fieldValue == Get(data, fieldName)
      isFieldRendered == shouldShowGenericField(fieldName, data, cond)
      isFieldRequired == isGenericFieldRequired(fieldName, data, cond, cfg)
  IN  IF isFieldRequired /\ isFieldRendered
        THEN IF isValueMissing(fieldValue)
               THEN [acc EXCEPT !.errors =
                       (fieldName :> requiredMessage(fieldConfig.label)) @@ @]
               ELSE [acc EXCEPT !.validatedFields = Append(@, fieldName)]
        ELSE [acc EXCEPT !.skippedFields = Append(@, fieldName)]

\* a pass that applies the value check to every visible field
validateGenericField_checksOptional(acc, fieldName, data, cfg, cond) ==
  LET fieldConfig == cfg[fieldName]
      fieldValue == Get(data, fieldName)
      isFieldRendered == shouldShowGenericField(fieldName, data, cond)
  IN  IF isFieldRendered
        THEN IF isValueMissing(fieldValue)
               THEN [acc EXCEPT !.errors =
                       (fieldName :> requiredMessage(fieldConfig.label)) @@ @]
               ELSE [acc EXCEPT !.validatedFields = Append(@, fieldName)]
        ELSE [acc EXCEPT !.skippedFields = Append(@, fieldName)]

\* the body of the forEach callback of the generic validation pass
validateGenericField(acc, fieldName, data, cfg, cond) ==
  LET fieldConfig == cfg[fieldName]
      fieldValue == Get(data, fieldName)
      isFieldRendered == shouldShowGenericField(fieldName, data, cond)
      isFieldRequired == isGenericFieldRequired(fieldName, data, cond, cfg)
  IN  IF isFieldRequired /\ isFieldRendered
        THEN IF isValueMissing(fieldValue)
               THEN [acc EXCEPT !.errors =
                       (fieldName :> requiredMessage(fieldConfig.label)) @@ @]
               ELSE [acc EXCEPT !.validatedFields = Append(@, fieldName)]
        ELSE IF ~isFieldRendered
               THEN [acc EXCEPT !.skippedFields = Append(@, fieldName)]
               ELSE [acc EXCEPT !.validatedFields = Append(@, fieldName)]

RECURSIVE forEachGenericField(_, _, _, _, _)
forEachGenericField(keys, acc, data, cfg, cond) ==
  IF keys = <<>> THEN acc
  ELSE forEachGenericField(Tail(keys),
                           validateGenericField(acc, Head(keys), data, cfg, cond),
                           data, cfg, cond)

validateGenericFieldsBasedOnRenderingAndRequirement(data, cfgKeys, cfg, cond) ==
  LET acc == forEachGenericField(cfgKeys, EmptyResult, data, cfg, cond)
  IN  [isValid |-> DOMAIN acc.errors = {},
       errors |-> acc.errors,
       validatedFields |-> acc.validatedFields,
       skippedFields |-> acc.skippedFields]

(***************************************************************************)
(* Transito-only engine: transitoConditionalValidator.ts                   *)
(***************************************************************************)
AudienciaVirtual ==
  <<"a", "u", "d", "i", "e", "n", "c", "i", "a", "-",
    "v", "i", "r", "t", "u", "a", "l">>

transitoRule ==
  [dependsOn |-> "procedureType", when |-> Str(AudienciaVirtual), type |-> "show"]

transitoConditionalFields == [virtualAudienceReason |-> [one |-> transitoRule]]

\* Object.keys(transitoConditionalFields)
transitoConditionalFieldsKeys == <<"virtualAudienceReason">>

\* strict equality of a snapshot value with a string
strictEquals(fieldValue, whenValue) ==
  isString(fieldValue) /\ isString(whenValue) /\ fieldValue.str = whenValue.str

evaluateCondition(rule, data) ==
  LET fieldValue == Get(data, rule.dependsOn)
  IN  IF isArray(rule.when)
        THEN \E i \in DOMAIN rule.when.arr :
               strictEquals(fieldValue, rule.when.arr[i])
        ELSE strictEquals(fieldValue, rule.when)

shouldShowField(fieldName, data) ==
  IF fieldName \notin DOMAIN transitoConditionalFields THEN TRUE
  ELSE evaluateCondition(transitoConditionalFields[fieldName].one, data)

isFieldRequired(fieldName, data) ==
  IF fieldName \notin DOMAIN transitoConditionalFields THEN FALSE
  ELSE LET rule == transitoConditionalFields[fieldName].one
       IN  IF rule.type = "show" THEN evaluateCondition(rule, data) ELSE FALSE

alwaysRequiredFields ==
  <<"userName", "typeId", "idNumber", "notificationAddress",
    "notificationCity", "notificationEmail", "phoneNumber", "procedureType",
    "actNumber", "actDate", "vehicleBrand", "vehicleModel", "vehiclePlates",
    "isOwner", "mobilitySecretaryName", "petitionDate">>

getRequiredFieldsForCurrentState(data) ==
  alwaysRequiredFields \o
    SelectSeq(transitoConditionalFieldsKeys,
              LAMBDA fieldName : shouldShowField(fieldName, data))

shouldShowFieldByName(fieldName, data) ==
  IF fieldName \in DOMAIN transitoConditionalFields
    THEN shouldShowField(fieldName, data)
    ELSE TRUE

MinReasonLength == 10

\* a message is the sequence of its text pieces, as in requiredMessage
ReasonRequiredMessage ==
  <<"La razon para no asistir presencialmente es requerida para solicitudes de audiencia virtual.">>

ReasonTooShortMessage == <<"La razon debe tener al menos 10 caracteres.">>

\* validateConditionalFields reads .trim() of a truthy value: an array there
\* raises a TypeError
validateConditionalFieldsThrows(data) ==
  /\ isFieldRequired("virtualAudienceReason", data)
  /\ isArray(Get(data, "virtualAudienceReason"))

validateConditionalFields(data) ==
  LET reason == Get(data, "virtualAudienceReason")
      errors ==
        IF isFieldRequired("virtualAudienceReason", data)
          THEN IF ~Truthy(reason) \/ trim(reason.str) = <<>>
                 THEN ("virtualAudienceReason" :> ReasonRequiredMessage)
                 ELSE IF Len(reason.str) < MinReasonLength
                        THEN ("virtualAudienceReason" :> ReasonTooShortMessage)
                        ELSE EmptyObject
          ELSE EmptyObject
  IN  [isValid |-> DOMAIN errors = {}, errors |-> errors]

\* the body of the forEach callback of the transito validation pass
validateTransitoField(acc, fieldName, data, fieldConfigs) ==
  LET fieldValue == Get(data, fieldName)
      fieldsToValidate == getRequiredFieldsForCurrentState(data)
      isRequiredNow == fieldName \in SeqToSet(fieldsToValidate)
      isFieldRendered == shouldShowFieldByName(fieldName, data)
  IN  IF fieldName \notin DOMAIN fieldConfigs
        THEN [acc EXCEPT !.skippedFields = Append(@, fieldName)]
        ELSE IF isRequiredNow /\ isFieldRendered
               THEN IF isValueMissing(fieldValue)
                      THEN [acc EXCEPT !.errors =
                              (fieldName :>
                                 requiredMessage(fieldConfigs[fieldName].label))
                              @@ @]
                      ELSE [acc EXCEPT !.validatedFields = Append(@, fieldName)]
               ELSE IF ~isFieldRendered
                      THEN [acc EXCEPT !.skippedFields = Append(@, fieldName)]
                      ELSE [acc EXCEPT !.validatedFields = Append(@, fieldName)]

RECURSIVE forEachTransitoField(_, _, _, _)
forEachTransitoField(keys, acc, data, fieldConfigs) ==
  IF keys = <<>> THEN acc
  ELSE forEachTransitoField(Tail(keys),
                            validateTransitoField(acc, Head(keys), data, fieldConfigs),
                            data, fieldConfigs)

\* the second loop: conditional errors overwrite, for rendered fields only
mergeConditionalErrors(errors, conditionalErrors, data) ==
  LET shown == {f \in DOMAIN conditionalErrors : shouldShowFieldByName(f, data)}
  IN  [f \in shown |-> conditionalErrors[f]] @@ errors

\* keys is Object.keys(formData), the keys of the snapshot as they were
\* inserted
validateFieldsBasedOnRenderingAndRequirement(data, keys, fieldConfigs) ==
  LET acc == forEachTransitoField(keys, EmptyResult, data, fieldConfigs)
  IN  IF validateConditionalFieldsThrows(data)
        THEN [threw |-> TRUE]
        ELSE LET errors ==
                   mergeConditionalErrors(acc.errors,
                                          validateConditionalFields(data).errors,
                                          data)
             IN  [isValid |-> DOMAIN errors = {},
                  errors |-> errors,
                  validatedFields |-> acc.validatedFields,
                  skippedFields |-> acc.skippedFields]

(***************************************************************************)
(* Hook over the generic engine: useGenericConditionalForm.ts              *)
(***************************************************************************)
getVisibleFields(data, cfgKeys, cfg, cond) ==
  SelectSeq(cfgKeys,
            LAMBDA fieldName : shouldShowGenericField(fieldName, data, cond))

getRequiredFields(data, cfgKeys, cfg, cond) ==
  getRequiredGenericFields(data, cond, cfgKeys, cfg)

validateForm(data, cfgKeys, cfg, cond) ==
  validateGenericFieldsBasedOnRenderingAndRequirement(data, cfgKeys, cfg, cond)

(***************************************************************************)
(* Inputs: words, trigger lists, snapshot values, schemas, rule maps       *)
(***************************************************************************)
Otro == <<"o", "t", "r", "o">>

SolicitoAudienciaVirtual ==
  <<"s", "o", "l", "i", "c", "i", "t", "o", " ", "a", "u", "d", "i", "e",
    "n", "c", "i", "a", " ", "v", "i", "r", "t", "u", "a", "l">>

Audiencia == <<"a", "u", "d", "i", "e", "n", "c", "i", "a">>

AudienciaUpper == <<"A", "U", "D", "I", "E", "N", "C", "I", "A">>

Virtual == <<"v", "i", "r", "t", "u", "a", "l">>

Presencial == <<"p", "r", "e", "s", "e", "n", "c", "i", "a", "l">>

UndefinedText == <<"u", "n", "d", "e", "f", "i", "n", "e", "d">>

\* a 12-character reason
MotivoLargo == <<"m", "o", "t", "i", "v", "o", " ", "l", "a", "r", "g", "o">>

MaxRules == 2

MaxWhenLen == 2

MaxValueLen == 2

Alphabet == {"a", "A", "b"}

\* every sequence over S of length at most n
SeqsUpTo(S, n) == UNION {[1..k -> S] : k \in 0..n}

\* candidate words of a trigger
Words == {Str(<<>>), Str(<<"a">>), Str(<<"A">>), Str(<<"b">>), Str(<<"a", "b">>)}

ScenarioWhens ==
  {Str(AudienciaVirtual),
   Arr(<<Str(Audiencia), Str(Virtual)>>),
   Arr(<<Str(Audiencia), Str(Presencial)>>)}

\* a trigger is one word or a list of words
Whens ==
  Words \cup {Arr(ws) : ws \in SeqsUpTo(Words, MaxWhenLen)} \cup ScenarioWhens

MatchModes == {"exact", "contains", "containsAll"}

\* rules given to the evaluator: every trigger, matchMode given or omitted
EvalRules ==
  {[dependsOn |-> "procedureType", when |-> w, type |-> "show"] : w \in Whens}
  \cup
  {[dependsOn |-> "procedureType", when |-> w, type |-> "show", matchMode |-> m] :
     w \in Whens, m \in MatchModes}

\* values of the dependency field given to the evaluator
EvalValues ==
  {Str(s) : s \in SeqsUpTo(Alphabet, MaxValueLen)}
  \cup {Str(AudienciaVirtual), Str(SolicitoAudienciaVirtual), Str(UndefinedText)}
  \cup {Arr(<<>>), Arr(<<Str(<<"a">>)>>), Arr(<<Str(<<"a">>), Str(<<"b">>)>>)}

\* triggers of the rules given to the form engine
EngineTriggers ==
  {[when |-> Str(AudienciaVirtual)],
   [when |-> Arr(<<Str(Audiencia), Str(Presencial)>>), matchMode |-> "contains"],
   [when |-> Arr(<<Str(Audiencia), Str(Virtual)>>), matchMode |-> "containsAll"]}

RuleTypes == {"show", "require"}

EngineRules ==
  {[dependsOn |-> "procedureType", type |-> ty] @@ tr :
     ty \in RuleTypes, tr \in EngineTriggers}

\* rules outside the declared types: an unknown matchMode, an unknown kind,
\* no dependsOn. The types are erased in the build and the exported functions
\* of the engine check nothing at run time, so a rule map written by a caller
\* reaches them as it is
MalformedRules ==
  {[dependsOn |-> "procedureType", when |-> Str(AudienciaVirtual),
    type |-> "show", matchMode |-> "fuzzy"],
   [dependsOn |-> "procedureType", when |-> Str(AudienciaVirtual),
    type |-> "hide"],
   [when |-> Str(AudienciaVirtual), type |-> "show"],
   [when |-> Str(<<>>), type |-> "require"]}

\* rules on the reason that depend on the reason itself
SelfReferentialRules ==
  {[dependsOn |-> "virtualAudienceReason", when |-> Str(<<"a">>), type |-> ty] :
     ty \in RuleTypes}

\* the rule map: no entry, one rule, or an array of rules
RuleMaps ==
  {EmptyObject}
  \cup {[virtualAudienceReason |-> [one |-> r]] :
          r \in EngineRules \cup MalformedRules \cup SelfReferentialRules}
  \cup {[virtualAudienceReason |-> [many |-> rs]] :
          rs \in SeqsUpTo(EngineRules, MaxRules)}

ProcedureTypeValues ==
  {Str(<<>>), Str(Otro), Str(AudienciaVirtual), Str(SolicitoAudienciaVirtual),
   Str(AudienciaUpper), Arr(<<>>), Arr(<<Str(Audiencia), Str(Virtual)>>)}

ReasonValues ==
  {Str(<<>>), Str(<<" ">>), Str(<<"a">>), Str(MotivoLargo),
   Arr(<<>>), Arr(<<Str(<<"a">>)>>)}

ValuesOf(fieldName) ==
  IF fieldName = "procedureType" THEN ProcedureTypeValues ELSE ReasonValues

FieldNames == SeqToSet(FieldOrder)

\* every snapshot: each key absent or holding one of its values
Snapshots ==
  UNION {{d \in [K -> ProcedureTypeValues \cup ReasonValues] :
            \A k \in K : d[k] \in ValuesOf(k)} : K \in SUBSET FieldNames}

ProcedureTypeLabel == "Tipo de tramite"

ReasonLabel == "Razon para audiencia virtual"

ReasonConfigs ==
  {[id |-> "virtualAudienceReason", label |-> ReasonLabel]}
  \cup {[id |-> "virtualAudienceReason", label |-> ReasonLabel, required |-> b] :
          b \in BOOLEAN}

\* schemas with no entry for the reason
NoReasonSchemas ==
  {[procedureType |->
      [id |-> "procedureType", label |-> ProcedureTypeLabel, required |-> b]] :
     b \in BOOLEAN}

Schemas ==
  {[procedureType |->
      [id |-> "procedureType", label |-> ProcedureTypeLabel, required |-> b],
    virtualAudienceReason |-> c] : b \in BOOLEAN, c \in ReasonConfigs}
  \cup NoReasonSchemas

\* the transito schema of the end-to-end scenario: the reason is not
\* base-required
TransitoSchema ==
  [procedureType |->
     [id |-> "procedureType", label |-> ProcedureTypeLabel, required |-> TRUE],
   virtualAudienceReason |->
     [id |-> "virtualAudienceReason", label |-> ReasonLabel, required |-> FALSE]]

\* Object.keys of the transito schema
TransitoSchemaKeys == FieldOrder

(***************************************************************************)
(* Validator-list pass: validators.ts, formValidator.ts                    *)
(***************************************************************************)
Null == [null |-> TRUE]

\* /^[^\s@]+@[^\s@]+\.[^\s@]+$/.test(value)
emailRegexTest(chars) ==
  \E i \in 1..Len(chars) : \E j \in 1..Len(chars) :
    /\ 1 < i /\ i + 1 < j /\ j < Len(chars)
    /\ chars[i] = "@" /\ chars[j] = "."
    /\ \A k \in (1..Len(chars)) \ {i} :
         chars[k] \notin WhiteSpace /\ chars[k] # "@"

Digits == {"0", "1", "2", "3", "4", "5", "6", "7", "8", "9"}

LineTerminators == {"\n", "\r"}

\* the regular expressions of typeFieldValidators, named by their source
\* text, and one given as the pattern of a field
TelRegex == "^[+]?[1-9]\\d{1,14}$"

UrlRegex == "^https?:\\/\\/.+"

NumberRegex == "^\\d+$"

APlusRegex == "^a+$"

startsWith(chars, prefix) ==
  Len(chars) >= Len(prefix) /\ SubSeq(chars, 1, Len(prefix)) = prefix

\* regex.test(value) for each of these regular expressions
regexTest(regex, chars) ==
  CASE regex = TelRegex ->
         LET digits == IF chars # <<>> /\ Head(chars) = "+"
                         THEN Tail(chars) ELSE chars
         IN  /\ Len(digits) >= 2 /\ Len(digits) <= 15
             /\ digits[1] \in Digits \ {"0"}
             /\ \A i \in 2..Len(digits) : digits[i] \in Digits
    [] regex = UrlRegex ->
         \E scheme \in {<<"h", "t", "t", "p", ":", "/", "/">>,
                        <<"h", "t", "t", "p", "s", ":", "/", "/">>} :
           /\ startsWith(chars, scheme)
           /\ Len(chars) > Len(scheme)
           /\ chars[Len(scheme) + 1] \notin LineTerminators
    [] regex = NumberRegex ->
         chars # <<>> /\ \A i \in DOMAIN chars : chars[i] \in Digits
    [] regex = APlusRegex ->
         chars # <<>> /\ \A i \in DOMAIN chars : chars[i] = "a"

\* the validators of validators.ts that the form builds, as values
requiredValidator == [kind |-> "required"]

emailValidator == [kind |-> "email"]

minLength(min) == [kind |-> "minLength", min |-> min]

maxLength(max) == [kind |-> "maxLength", max |-> max]

pattern(regex, message) == [kind |-> "pattern", regex |-> regex, message |-> message]

\* a validator applied to a string: the message, or null. Every validator
\* but required passes the empty string
runValidator(validator, value) ==
  IF validator.kind = "required"
    THEN IF value = <<>> \/ trim(value) = <<>>
           THEN [message |-> "Este campo es requerido"]
           ELSE Null
  ELSE IF value = <<>> THEN Null
  ELSE IF validator.kind = "minLength"
    THEN IF Len(value) >= validator.min THEN Null
         ELSE [message |->
                 "Debe tener al menos " \o ToString(validator.min) \o " caracteres"]
  ELSE IF validator.kind = "maxLength"
    THEN IF Len(value) <= validator.max THEN Null
         ELSE [message |->
                 "No puede tener mas de " \o ToString(validator.max) \o " caracteres"]
  ELSE IF validator.kind = "pattern"
    THEN IF regexTest(validator.regex, value) THEN Null
         ELSE [message |-> validator.message]
  ELSE IF emailRegexTest(value) THEN Null
  ELSE [message |-> "Email invalido"]

\* the loop over a field's validators: the first error, or null
RECURSIVE firstError(_, _)
firstError(validatorList, value) ==
  IF validatorList = <<>> THEN Null
  ELSE LET error == runValidator(Head(validatorList), value)
       IN  IF error # Null THEN error
           ELSE firstError(Tail(validatorList), value)

EmptyFormValidationResult ==
  [errors |-> <<>>, validFields |-> <<>>, invalidFields |-> <<>>]

\* the body of the forEach callback of formValidator.validateForm
validateFormField(acc, fieldId, data, fieldConfigs) ==
  IF fieldId \notin DOMAIN fieldConfigs THEN acc
  ELSE LET value == data[fieldId]
           stringValue == IF isArray(value) THEN join(value.arr)
                          ELSE IF Truthy(value) THEN String(value) ELSE <<>>
           config == fieldConfigs[fieldId]
           validators == IF "validators" \in DOMAIN config
                           THEN config.validators ELSE <<>>
           error == firstError(validators, stringValue)
       IN  IF error # Null
             THEN [acc EXCEPT
                     !.errors = Append(@, [fieldId |-> fieldId,
                                           message |-> error.message]),
                     !.invalidFields = Append(@, fieldId)]
             ELSE [acc EXCEPT !.validFields = Append(@, fieldId)]

RECURSIVE forEachFormField(_, _, _, _)
forEachFormField(keys, acc, data, fieldConfigs) ==
  IF keys = <<>> THEN acc
  ELSE forEachFormField(Tail(keys),
                        validateFormField(acc, Head(keys), data, fieldConfigs),
                        data, fieldConfigs)

\* formValidator.validateForm; keys is Object.keys(formData)
validateFormFields(data, keys, fieldConfigs) ==
  LET acc == forEachFormField(keys, EmptyFormValidationResult,
                              data, fieldConfigs)
  IN  [isValid |-> acc.errors = <<>>,
       errors |-> acc.errors,
       validFields |-> acc.validFields,
       invalidFields |-> acc.invalidFields]

Tutela == <<"t", "u", "t", "e", "l", "a">>

\* 'peticion' and 'transito' with their accented letters, each written as
\* one character
Peticion == <<"p", "e", "t", "i", "c", "i", "o'", "n">>

Transito == <<"t", "r", "a'", "n", "s", "i", "t", "o">>

\* formValidator.getFormType
getFormType(orderTitle) ==
  LET title == toLowerCase(orderTitle)
  IN  IF includes(title, Tutela) THEN "tutela"
      ELSE IF includes(title, Peticion) THEN "peticion"
      ELSE IF includes(title, Transito) THEN "transito"
      ELSE "tutela"

(***************************************************************************)
(* Footer: useFooterValidation.ts                                          *)
(***************************************************************************)
getFooterFieldConfig(footerValidators) ==
  [deliveryEmail |-> [validators |-> footerValidators]]

validateFooterFields(deliveryEmail, usePreviousEmail, footerValidators) ==
  IF usePreviousEmail
    THEN [isValid |-> TRUE, errors |-> <<>>,
          validFields |-> <<"deliveryEmail">>, invalidFields |-> <<>>]
    ELSE validateFormFields([deliveryEmail |-> Str(trim(deliveryEmail.str))],
                            <<"deliveryEmail">>,
                            getFooterFieldConfig(footerValidators))

isFooterComplete(deliveryEmail, usePreviousEmail) ==
  IF usePreviousEmail THEN TRUE ELSE trim(deliveryEmail.str) # <<>>

(***************************************************************************)
(* Submit gating: App.tsx, useFormManager.ts, useTransitoFormCompleteness  *)
(***************************************************************************)
EmptyOrder == [id |-> Str(<<>>), title |-> Str(<<>>)]

BypassMode ==
  <<"b", "y", "p", "a", "s", "s", "-", "m", "o", "d", "e">>

\* validationBuilder.buildFieldValidators: a property that the declaration
\* leaves out is undefined
buildFieldValidators(config) ==
  (IF "required" \in DOMAIN config /\ config.required
     THEN <<requiredValidator>> ELSE <<>>)
  \o (IF "typeField" \in DOMAIN config /\ config.typeField = "email"
        THEN <<emailValidator>> ELSE <<>>)
  \o (IF "minLength" \in DOMAIN config
        THEN <<minLength(config.minLength)>> ELSE <<>>)
  \o (IF "maxLength" \in DOMAIN config
        THEN <<maxLength(config.maxLength)>> ELSE <<>>)
  \o (IF "pattern" \in DOMAIN config
        THEN <<pattern(config.pattern, "Formato invalido")>> ELSE <<>>)

typeFieldValidators ==
  [tel |-> <<pattern(TelRegex, "Formato de telefono invalido")>>,
   url |-> <<pattern(UrlRegex, "URL invalida")>>,
   number |-> <<pattern(NumberRegex, "Solo se permiten numeros")>>]

\* the typeField of a declaration that has none
NoTypeField == ""

\* !typeField || !typeFieldValidators[typeField]
getTypeFieldValidators(typeField) ==
  IF typeField = NoTypeField \/ typeField \notin DOMAIN typeFieldValidators
    THEN <<>>
    ELSE typeFieldValidators[typeField]

buildCompleteFieldValidators(config) ==
  buildFieldValidators(config)
  \o getTypeFieldValidators(IF "typeField" \in DOMAIN config
                              THEN config.typeField ELSE NoTypeField)

\* the declarations of FormTexts.tutela and FormTexts.peticion for the email
\* field of each form: a required input of type email, no validators listed
DeclaredTutela ==
  [email |-> [id |-> "email", typeField |-> "email", required |-> TRUE]]

DeclaredPeticion ==
  [responseEmail |->
     [id |-> "responseEmail", typeField |-> "email", required |-> TRUE]]

\* initializeFieldValidations on the tutela fields: every field with an id
\* gets the validators built from its declaration; the peticion fields and
\* the footer keep what they declare
initializeFieldValidations(tutelaFields) ==
  [fieldKey \in DOMAIN tutelaFields |->
     IF "id" \in DOMAIN tutelaFields[fieldKey]
       THEN ("validators" :> buildCompleteFieldValidators(tutelaFields[fieldKey]))
            @@ tutelaFields[fieldKey]
       ELSE tutelaFields[fieldKey]]

FormTextsTutela == initializeFieldValidations(DeclaredTutela)

FormTextsPeticion == DeclaredPeticion

\* useFormManager.getFieldConfig: the configuration of the form type of the
\* order title, for each of the three form managers
getFieldConfig(orderTitle) ==
  LET formType == getFormType(orderTitle)
  IN  IF formType = "tutela" THEN FormTextsTutela
      ELSE IF formType = "peticion" THEN FormTextsPeticion
      ELSE IF formType = "transito" THEN EmptyObject
      ELSE FormTextsTutela

initialTutelaData == [email |-> Str(<<>>)]

initialTutelaDataKeys == <<"email">>

initialPeticionData == [responseEmail |-> Str(<<>>)]

initialPeticionDataKeys == <<"responseEmail">>

\* the state of the App component after construction. footerValidators is
\* FormTexts.footer.deliveryEmail.validators, which no code builds: an absent
\* list is read as []. autoFill is isAutoFillEnabled(). lookup is the
\* position of the running handleOrderLookup and calls the apiService calls
\* it has made; promptLoads counts the pending loadPromptFilesForForm calls;
\* inFlight counts the handleFormSubmit calls that await submitForm
initialApp ==
  [order |-> EmptyOrder,
   orderNumberField |-> Str(<<>>),
   confirmationCodeField |-> Str(<<>>),
   orderValidation |-> Null,
   bypassFormType |-> "",
   orderLookupCompleted |-> FALSE,
   tutelaData |-> initialTutelaData,
   tutelaDataKeys |-> initialTutelaDataKeys,
   peticionData |-> initialPeticionData,
   peticionDataKeys |-> initialPeticionDataKeys,
   promptFiles |-> EmptyObject,
   promptLoads |-> 0,
   deliveryEmail |-> Str(<<>>),
   usePreviousEmail |-> FALSE,
   footerValidators |-> <<>>,
   autoFill |-> FALSE,
   isLoading |-> FALSE,
   lookup |-> "idle",
   calls |-> <<>>,
   isSubmitting |-> FALSE,
   inFlight |-> 0]

NullFormType == "null"

getEffectiveFormType(a) ==
  IF a.orderValidation # Null /\ a.orderValidation.allowBypass
       /\ a.bypassFormType # ""
    THEN a.bypassFormType
    ELSE IF a.order.id.str # <<>> /\ a.order.id.str # BypassMode
           THEN getFormType(a.order.title.str)
           ELSE NullFormType

\* value present: a non-empty array, or a string that does not trim to ''
isCompleteValue(value) ==
  IF isArray(value) THEN Len(value.arr) > 0
  ELSE Truthy(value) /\ trim(value.str) # <<>>

\* completeness that asks every required field, rendered or not
useTransitoFormCompleteness_ignoresRendering(transitoData, standardIsFormComplete, formType, cfgKeys, cfg) ==
  IF formType # "transito" THEN standardIsFormComplete
  ELSE \A fieldId \in
            SeqToSet(getRequiredFields(transitoData, cfgKeys, cfg, transitoConditionalFields)) :
         isCompleteValue(Get(transitoData, fieldId))

\* useFormManager.isFormComplete
isFormComplete(data, fieldConfig) ==
  \A fieldId \in DOMAIN fieldConfig :
    ("required" \in DOMAIN fieldConfig[fieldId] /\ fieldConfig[fieldId].required)
      => isCompleteValue(Get(data, fieldId))

useTransitoFormCompleteness(transitoData, standardIsFormComplete, formType, cfgKeys, cfg) ==
  IF formType # "transito" THEN standardIsFormComplete
  ELSE \A fieldId \in
            SeqToSet(getRequiredFields(transitoData, cfgKeys, cfg, transitoConditionalFields)) :
         \/ ~shouldShowGenericField(fieldId, transitoData, transitoConditionalFields)
         \/ isCompleteValue(Get(transitoData, fieldId))

\* usePeticionFormCompleteness: for the peticion form, every field that
\* FormTexts.peticion declares required holds a value
usePeticionFormCompleteness(peticionData, standardIsFormComplete, formType) ==
  IF formType # "peticion" THEN standardIsFormComplete
  ELSE LET fieldConfig == FormTextsPeticion
           requiredFields ==
             {fieldId \in DOMAIN fieldConfig :
                "required" \in DOMAIN fieldConfig[fieldId]
                  /\ fieldConfig[fieldId].required}
       IN  \A fieldId \in requiredFields :
             isCompleteValue(Get(peticionData, fieldId))

\* validation of the main form alone
combinedValidation_formOnly(validationResult, footerValidation) ==
  [isValid |-> validationResult.isValid]

combinedValidation(validationResult, footerValidation) ==
  [isValid |-> validationResult.isValid /\ footerValidation.isValid]

getCurrentFormEmail(a, transitoData) ==
  LET effectiveFormType == getEffectiveFormType(a)
  IN  IF effectiveFormType = "tutela" THEN Get(a.tutelaData, "email")
      ELSE IF effectiveFormType = "peticion"
        THEN Get(a.peticionData, "responseEmail")
      ELSE IF effectiveFormType = "transito"
        THEN Get(transitoData, "notificationEmail")
      ELSE Str(<<>>)

\* the effect on [usePreviousEmail, ..., transitoData.notificationEmail]
usePreviousEmailEffect(a, transitoData) ==
  [a EXCEPT !.deliveryEmail =
     IF a.usePreviousEmail THEN getCurrentFormEmail(a, transitoData)
     ELSE Str(<<>>)]

(***************************************************************************)
(* Webhook submission: services/formSubmissionService.ts                   *)
(***************************************************************************)
Num(n) == [num |-> n]

isNumber(v) == DOMAIN v = {"num"}

\* an entry of an errors list: its text and the name it is about
ErrorText(text, arg) == [text |-> text, arg |-> arg]

\* !value || value.trim() === ''
isBlank(value) == ~Truthy(value) \/ trim(value.str) = <<>>

\* value.trim() on a truthy value that is not a string raises a TypeError
trimThrows(value) == Truthy(value) /\ ~isString(value)

tutelaRequiredFields == <<"userName", "email", "facts", "expectation">>

peticionRequiredFields ==
  <<"userName", "idNumber", "cityDate", "targetEntity", "petitionRequest",
    "petitionReasons", "responseEmail">>

transitoRequiredFields == <<"typeId", "idNumber">>

requiredFieldsOf(formType) ==
  IF formType = "tutela" THEN tutelaRequiredFields
  ELSE IF formType = "peticion" THEN peticionRequiredFields
  ELSE IF formType = "transito" THEN transitoRequiredFields
  ELSE <<>>

\* the errors of requiredFields.forEach, in order
RECURSIVE requiredFieldErrors(_, _)
requiredFieldErrors(fields, data) ==
  IF fields = <<>> THEN <<>>
  ELSE (IF isBlank(Get(data, Head(fields)))
          THEN <<ErrorText("Campo requerido: ", Head(fields))>>
          ELSE <<>>)
       \o requiredFieldErrors(Tail(fields), data)

\* the transito fields other than the base ones that hold a value
dynamicFields(transitoData) ==
  {key \in DOMAIN transitoData :
     /\ key \notin SeqToSet(transitoRequiredFields)
     /\ Truthy(transitoData[key])
     /\ trim(transitoData[key].str) # <<>>}

\* validateFormStructure reads .trim() of every value it finds truthy: the
\* base fields of the form type and, for transito, every other key
validateFormStructureThrows(request) ==
  \/ \E field \in SeqToSet(requiredFieldsOf(request.formType)) :
       trimThrows(Get(request.formData, field))
  \/ /\ request.formType = "transito"
     /\ \E key \in DOMAIN request.formData \ SeqToSet(transitoRequiredFields) :
          trimThrows(request.formData[key])

validateFormStructure(request) ==
  LET errors ==
        (IF request.formType = ""
           THEN <<ErrorText("Tipo de formulario requerido", "")>> ELSE <<>>)
        \o (IF DOMAIN request.formData = {}
              THEN <<ErrorText("Datos del formulario requeridos", "")>>
              ELSE <<>>)
        \o (IF ~Truthy(request.orderData.orderNumber)
              THEN <<ErrorText("Informacion del pedido requerida", "")>>
              ELSE <<>>)
        \o requiredFieldErrors(requiredFieldsOf(request.formType),
                               request.formData)
        \o (IF request.formType = "transito"
                 /\ dynamicFields(request.formData) = {}
              THEN <<ErrorText("Al menos un campo especifico del formulario de transito debe estar completado", "")>>
              ELSE <<>>)
  IN  [isValid |-> errors = <<>>, errors |-> errors]

\* the promptContent of a request: its keys as they were inserted, and the
\* prompt file of each
PromptContent(keys, files) == [keys |-> keys, files |-> files]

\* Object.keys(request.promptContent)
promptKeys(promptContent) ==
  IF promptContent = Undefined THEN <<>> ELSE promptContent.keys

\* the three checks of one prompt file, in order
promptFileErrors(key, promptData) ==
  (IF isBlank(promptData.content)
     THEN <<ErrorText("Contenido del prompt file vacio: ", key)>> ELSE <<>>)
  \o (IF isBlank(promptData.handle)
        THEN <<ErrorText("Handle del prompt file vacio: ", key)>> ELSE <<>>)
  \o (IF isBlank(promptData.name)
        THEN <<ErrorText("Nombre del prompt file vacio: ", key)>> ELSE <<>>)

RECURSIVE forEachPromptFile(_, _)
forEachPromptFile(keys, promptContent) ==
  IF keys = <<>> THEN <<>>
  ELSE promptFileErrors(Head(keys), promptContent.files[Head(keys)])
       \o forEachPromptFile(Tail(keys), promptContent)

validatePayloadCompleteness(request) ==
  LET keys == promptKeys(request.promptContent)
      errors ==
        (IF isBlank(request.deliveryEmail)
           THEN <<ErrorText("Email de entrega requerido", "")>> ELSE <<>>)
        \o (IF isBlank(request.shopName)
              THEN <<ErrorText("Nombre de la tienda requerido", "")>> ELSE <<>>)
        \o (IF request.formType = "transito"
              THEN IF keys = <<>>
                     THEN <<ErrorText("Contenido de prompt files requerido para formularios de transito", "")>>
                     ELSE IF \/ "procedureType" \notin DOMAIN request.promptContent.files
                             \/ isBlank(request.promptContent.files.procedureType.content)
                            THEN <<ErrorText("Contenido del tipo de procedimiento requerido para transito", "")>>
                            ELSE <<>>
              ELSE <<>>)
        \o forEachPromptFile(keys, request.promptContent)
  IN  [isValid |-> errors = <<>>, errors |-> errors]

\* a message: the pieces of its text, the errors joined into it, and the
\* pieces the archive step appended
Message(text, errors, appended) ==
  [text |-> text, errors |-> errors, appended |-> appended]

\* the catch block of submitForm
catchError_rethrows(text, errors) ==
  [threw |-> Message(<<text>>, errors, <<>>)]

catchError(text, errors) ==
  [returned |->
     [success |-> FALSE,
      message |-> Message(<<"Error al enviar formulario: ", text>>, errors, <<>>)]]

\* the checks that precede the POST: the failure they end the call with, or
\* null when the POST is to be sent
preValidation(webhookUrl, request) ==
  IF webhookUrl = <<>>
    THEN catchError("Webhook URL no configurado. Verifica la variable VITE_MAKE_WEBHOOK en .env", <<>>)
  ELSE IF validateFormStructureThrows(request)
    THEN catchError("TypeError", <<>>)
  ELSE IF ~validateFormStructure(request).isValid
    THEN catchError("Validacion de estructura fallo: ",
                    validateFormStructure(request).errors)
  ELSE IF ~validatePayloadCompleteness(request).isValid
    THEN catchError("Validacion de payload fallo: ",
                    validatePayloadCompleteness(request).errors)
  ELSE Null

\* result.message += piece; an absent message reads as 'undefined'
appendToMessage(message, piece) ==
  IF message = Undefined
    THEN Message(<<"undefined">>, <<>>, <<piece>>)
    ELSE [message EXCEPT !.appended = Append(@, piece)]

Bool(b) == [bool |-> b]

ApplicationJson ==
  <<"a", "p", "p", "l", "i", "c", "a", "t", "i", "o", "n", "/",
    "j", "s", "o", "n">>

defaultResult(text) ==
  [success |-> TRUE, message |-> Message(<<text>>, <<>>, <<>>)]

\* the inner try of submitForm: the result and the webhook status read from
\* the answer; body is what response.json() or response.text() gives
readResponse(response, body) ==
  IF response.bodyUsed
    THEN [result |-> defaultResult("Formulario enviado exitosamente al webhook (body already used)"),
          webhookStatus |-> Null]
  ELSE IF response.contentType # Null
            /\ includes(response.contentType.str, ApplicationJson)
    THEN IF body = [parse |-> "fails"] \/ body = [json |-> Null]
           THEN [result |-> defaultResult("Formulario enviado exitosamente al webhook (error parsing response)"),
                 webhookStatus |-> Null]
           ELSE LET responseData == body.json
                    status == responseData.status
                IN  [result |->
                       IF responseData.success # Undefined
                         THEN [success |-> responseData.success.bool,
                               message |-> responseData.message]
                         ELSE defaultResult("Formulario enviado exitosamente al webhook. Respuesta: "),
                     webhookStatus |->
                       IF isNumber(status) /\ status.num # 0
                         THEN status ELSE Null]
  ELSE IF body = [parse |-> "fails"]
    THEN [result |-> defaultResult("Formulario enviado exitosamente al webhook (error parsing response)"),
          webhookStatus |-> Null]
  ELSE [result |-> defaultResult("Formulario enviado exitosamente al webhook. Respuesta: "),
        webhookStatus |-> Null]

\* webhookStatus === 200 && !isBypassMode
archivesOrder_anyStatus(webhookStatus, request) ==
  /\ webhookStatus # Null
  /\ request.orderData.id.str # BypassMode

archivesOrder(webhookStatus, request) ==
  /\ webhookStatus = Num(200)
  /\ request.orderData.id.str # BypassMode

\* the messages the archive step appends
archiveSuffix(archiveResult) ==
  IF archiveResult = [threw |-> TRUE] THEN " - Error al archivar la orden."
  ELSE IF archiveResult.success THEN " - Orden archivada correctamente."
  ELSE " - Advertencia: "

\* the FormSubmissionService with no call in progress
idleService ==
  [webhookUrl |-> <<"h", "t", "t", "p", "s", ":", "/", "/", "m">>,
   pc |-> "idle",
   request |-> Null,
   posts |-> 0,
   archives |-> 0,
   response |-> Null,
   body |-> Null,
   webhookStatus |-> Null,
   result |-> Null,
   archiveResult |-> Null,
   completion |-> Null]

(***************************************************************************)
(* The host and the engine as a state machine                              *)
(***************************************************************************)
NoCall == [op |-> "none"]

Init ==
  /\ formConfiguration \in Schemas
  /\ formConfigurationKeys \in Orderings(DOMAIN formConfiguration)
  /\ conditionalFields \in RuleMaps
  /\ formData \in Snapshots
  /\ formDataKeys \in Orderings(DOMAIN formData)
  /\ result = NoCall
  /\ app = initialApp
  /\ service = idleService

\* useFormManager.updateField: setFormData(prev => ({...prev, [fieldId]: value}))
setField(data, fieldId, value) ==
  [k \in DOMAIN data \cup {fieldId} |-> IF k = fieldId THEN value ELSE data[k]]

updateField(fieldId, value) ==
  /\ formData' = setField(formData, fieldId, value)
  /\ formDataKeys' = insertKey(formDataKeys, fieldId)
  /\ result' = NoCall
  /\ UNCHANGED <<configuration, app, service>>

\* useGenericConditionalForm.validateForm
ValidateForm ==
  /\ result' = [op |-> "validateForm",
                value |-> validateForm(formData, formConfigurationKeys,
                                       formConfiguration, conditionalFields)]
  /\ UNCHANGED <<formData, formDataKeys, configuration, app, service>>

\* useGenericConditionalForm.getVisibleFields / getRequiredFields, as the host
\* queries them on a render
Render ==
  /\ result' = [op |-> "render",
                visibleFields |->
                  getVisibleFields(formData, formConfigurationKeys, formConfiguration, conditionalFields),
                requiredFields |->
                  getRequiredFields(formData, formConfigurationKeys, formConfiguration, conditionalFields)]
  /\ UNCHANGED <<formData, formDataKeys, configuration, app, service>>

\* the transito-only validation pass over the same snapshot
ValidateTransito ==
  /\ result' = [op |-> "validateTransito",
                value |-> validateFieldsBasedOnRenderingAndRequirement(
                            formData, formDataKeys, formConfiguration)]
  /\ UNCHANGED <<formData, formDataKeys, configuration, app, service>>

Next ==
  \/ \E fieldId \in FieldNames : \E value \in ValuesOf(fieldId) :
       updateField(fieldId, value)
  \/ ValidateForm
  \/ Render
  \/ ValidateTransito

Spec == Init /\ [][Next]_vars

(***************************************************************************)
(* The evaluator alone: one rule against a snapshot of its dependency      *)
(***************************************************************************)
EvalSnapshots ==
  {EmptyObject} \cup {[procedureType |-> v] : v \in EvalValues}

\* the same schema with the reason base-required
RequiredReasonSchema ==
  [TransitoSchema EXCEPT !["virtualAudienceReason"].required = TRUE]

InitEval ==
  /\ formConfiguration \in {TransitoSchema, RequiredReasonSchema}
  /\ formConfigurationKeys = TransitoSchemaKeys
  /\ conditionalFields \in {[virtualAudienceReason |-> [one |-> r]] : r \in EvalRules}
  /\ formData \in EvalSnapshots
  /\ formDataKeys \in Orderings(DOMAIN formData)
  /\ result = NoCall
  /\ app = initialApp
  /\ service = idleService

ruleUnderEvaluation == conditionalFields["virtualAudienceReason"].one

updateDependency(value) ==
  /\ formData' = setField(formData, "procedureType", value)
  /\ formDataKeys' = insertKey(formDataKeys, "procedureType")
  /\ result' = NoCall
  /\ UNCHANGED <<configuration, app, service>>

Evaluate ==
  /\ result' = [op |-> "evaluate",
                value |-> evaluateGenericCondition(ruleUnderEvaluation, formData)]
  /\ UNCHANGED <<formData, formDataKeys, configuration, app, service>>

NextEval ==
  \/ \E value \in EvalValues : updateDependency(value)
  \/ Evaluate
  \/ ValidateForm
  \/ Render

SpecEval == InitEval /\ [][NextEval]_vars

(***************************************************************************)
(* The App component: field edits, the footer, submit and its settling     *)
(***************************************************************************)
MaxInFlight == 2

TransitoOrder ==
  [id |-> Str(<<"1", "0", "0", "1">>),
   title |-> Str(<<"T", "r", "a'", "n", "s", "i", "t", "o">>)]

TutelaOrder ==
  [id |-> Str(<<"1", "0", "0", "2">>),
   title |-> Str(<<"T", "u", "t", "e", "l", "a">>)]

PeticionOrder ==
  [id |-> Str(<<"1", "0", "0", "3">>),
   title |-> Str(<<"P", "e", "t", "i", "c", "i", "o'", "n">>)]

Orders == {EmptyOrder, TransitoOrder, TutelaOrder, PeticionOrder}

FooterValidatorLists ==
  {<<>>, <<emailValidator>>, <<requiredValidator, emailValidator>>}

\* the lists of one App: those, and one of length limits
AppFooterValidatorLists ==
  FooterValidatorLists \cup {<<minLength(4), maxLength(5)>>}

ValidEmail == <<"a", "@", "b", ".", "c">>

NotificationEmails == {Str(<<>>), Str(ValidEmail)}

DeliveryEmails ==
  {Str(<<>>), Str(<<" ">>), Str(ValidEmail), Str(<<"a", "@", "b">>),
   Str(<<" ">> \o ValidEmail)}

AppValuesOf(fieldId) ==
  IF fieldId = "notificationEmail" THEN NotificationEmails
  ELSE IF fieldId = "procedureType"
         THEN {Str(<<>>), Str(AudienciaVirtual), Str(Otro)}
         ELSE {Str(<<>>), Str(<<"a">>), Arr(<<>>)}

AppSchemas == {TransitoSchema, RequiredReasonSchema}

initialTransitoData ==
  [notificationEmail |-> Str(<<>>),
   procedureType |-> Str(<<>>),
   virtualAudienceReason |-> Str(<<>>)]

initialTransitoDataKeys ==
  <<"notificationEmail", "procedureType", "virtualAudienceReason">>

InitApp ==
  /\ formConfiguration \in AppSchemas
  /\ formConfigurationKeys = TransitoSchemaKeys
  /\ conditionalFields = transitoConditionalFields
  /\ formData = initialTransitoData
  /\ formDataKeys = initialTransitoDataKeys
  /\ result = NoCall
  /\ app \in {[initialApp EXCEPT !.order = o, !.footerValidators = v] :
                o \in Orders, v \in AppFooterValidatorLists}
  /\ service = idleService

\* the footer is drawn for an effective form type; the orders of this model
\* are paid
footerRendered(a) == getEffectiveFormType(a) # NullFormType

\* the inputs of a form are drawn for its effective form type and are
\* disabled while an order lookup runs
formRendered(a, formType) ==
  getEffectiveFormType(a) = formType /\ ~a.isLoading

\* the button of a submission in flight stays enabled
isButtonEnabled_whileSubmitting(a, combined, isComplete, footerComplete) ==
  /\ combined.isValid /\ isComplete /\ footerComplete
  /\ ~(a.orderValidation # Null
       /\ a.orderValidation.isProcessed /\ ~a.orderValidation.allowBypass)

isButtonEnabled(a, combined, isComplete, footerComplete) ==
  /\ combined.isValid /\ isComplete /\ footerComplete
  /\ ~a.isSubmitting
  /\ ~(a.orderValidation # Null
       /\ a.orderValidation.isProcessed /\ ~a.orderValidation.allowBypass)

\* onChange of a transito input, which iterateTransitoFields draws for the
\* fields that shouldRenderTransitoField keeps: updateTransitoField, then the
\* effect when notificationEmail changed
handleTransitoChange(fieldId, value) ==
  /\ formRendered(app, "transito")
  /\ shouldShowGenericField(fieldId, formData, conditionalFields)
  /\ formData' = setField(formData, fieldId, value)
  /\ formDataKeys' = insertKey(formDataKeys, fieldId)
  /\ app' = IF fieldId = "notificationEmail" /\ value # formData[fieldId]
              THEN usePreviousEmailEffect(app, formData')
              ELSE app
  /\ result' = NoCall
  /\ UNCHANGED <<configuration, service>>

\* onChange of the delivery email input, disabled while submitting or while
\* the previous email is used
setDeliveryEmail(value) ==
  /\ footerRendered(app)
  /\ ~(app.isSubmitting \/ app.usePreviousEmail)
  /\ app' = [app EXCEPT !.deliveryEmail = value]
  /\ result' = NoCall
  /\ UNCHANGED <<formData, formDataKeys, configuration, service>>

\* onChange of the checkbox, disabled while submitting or while the form has
\* no email; then the effect when the flag changed
setUsePreviousEmail(checked) ==
  /\ footerRendered(app)
  /\ ~(app.isSubmitting \/ ~Truthy(getCurrentFormEmail(app, formData)))
  /\ app' = IF checked # app.usePreviousEmail
              THEN usePreviousEmailEffect([app EXCEPT !.usePreviousEmail = checked],
                                          formData)
              ELSE app
  /\ result' = NoCall
  /\ UNCHANGED <<formData, formDataKeys, configuration, service>>

\* validateTutelaForm(), validatePeticionForm() and the unified transito
\* validation: the branches of handleFormSubmit and of the button's render on
\* the effective form type
mainFormValidation(a, transitoData, cfgKeys, cfg, cond) ==
  LET effectiveFormType == getEffectiveFormType(a)
  IN  IF effectiveFormType = "tutela"
        THEN validateFormFields(a.tutelaData, a.tutelaDataKeys,
                                getFieldConfig(a.order.title.str))
      ELSE IF effectiveFormType = "peticion"
        THEN validateFormFields(a.peticionData, a.peticionDataKeys,
                                getFieldConfig(a.order.title.str))
      ELSE validateForm(transitoData, cfgKeys, cfg, cond)

\* isTutelaFormComplete, effectiveIsPeticionFormComplete and
\* effectiveIsTransitoFormComplete by the effective form type
mainFormComplete(a, transitoData, cfgKeys, cfg) ==
  LET effectiveFormType == getEffectiveFormType(a)
      fieldConfig == getFieldConfig(a.order.title.str)
  IN  IF effectiveFormType = "tutela"
        THEN isFormComplete(a.tutelaData, fieldConfig)
      ELSE IF effectiveFormType = "peticion"
        THEN usePeticionFormCompleteness(a.peticionData,
                                         isFormComplete(a.peticionData, fieldConfig),
                                         effectiveFormType)
      ELSE useTransitoFormCompleteness(transitoData,
                                       isFormComplete(transitoData, fieldConfig),
                                       effectiveFormType, cfgKeys, cfg)

\* handleFormSubmit up to the await of formSubmissionService.submitForm
handleFormSubmit ==
  LET effectiveFormType == getEffectiveFormType(app)
      validationResult ==
        mainFormValidation(app, formData, formConfigurationKeys, formConfiguration, conditionalFields)
      isComplete ==
        mainFormComplete(app, formData, formConfigurationKeys, formConfiguration)
      footerValidation ==
        validateFooterFields(app.deliveryEmail, app.usePreviousEmail,
                             app.footerValidators)
      toast(message) ==
        /\ result' = [op |-> "handleFormSubmit", toasts |-> <<message>>]
        /\ UNCHANGED app
  IN  /\ UNCHANGED <<formData, formDataKeys, configuration, service>>
      /\ IF effectiveFormType = NullFormType
           THEN toast("No se ha seleccionado un tipo de formulario valido")
         ELSE IF ~combinedValidation(validationResult, footerValidation).isValid
           THEN toast("Por favor corrige los errores en el formulario")
         ELSE IF ~isComplete
                 \/ ~isFooterComplete(app.deliveryEmail, app.usePreviousEmail)
           THEN toast("Por favor completa todos los campos requeridos")
         ELSE /\ app.inFlight < MaxInFlight
              /\ app' = [app EXCEPT !.isSubmitting = TRUE, !.inFlight = @ + 1]
              /\ result' = [op |-> "handleFormSubmit", toasts |-> <<>>]

\* resetFormToInitialState
\* resetFormToInitialState but for resetTransitoForm, which the action adds
resetFormToInitialState(a) ==
  [a EXCEPT !.orderNumberField = Str(<<>>),
            !.confirmationCodeField = Str(<<>>),
            !.orderValidation = Null,
            !.bypassFormType = "",
            !.order = EmptyOrder,
            !.tutelaData = initialTutelaData,
            !.tutelaDataKeys = initialTutelaDataKeys,
            !.peticionData = initialPeticionData,
            !.peticionDataKeys = initialPeticionDataKeys,
            !.deliveryEmail = Str(<<>>),
            !.usePreviousEmail = FALSE,
            !.promptFiles = EmptyObject,
            !.orderLookupCompleted = FALSE]

\* what the awaited submitForm gives handleFormSubmit: a result, or an
\* exception of the try block
SubmitAnswers ==
  {[success |-> TRUE, message |-> "Formulario enviado exitosamente"],
   [success |-> FALSE, message |-> "Error al enviar formulario"],
   [threw |-> TRUE]}

\* a settle that resets the form whatever submitForm answered
submitFormSettles_alwaysResets(answer) ==
  /\ app.inFlight > 0
  /\ formData' = initialTransitoData
  /\ formDataKeys' = initialTransitoDataKeys
  /\ app' = [resetFormToInitialState(app) EXCEPT
               !.isSubmitting = FALSE, !.inFlight = @ - 1]
  /\ result' = [op |-> "submitFormSettled",
                success |-> "threw" \notin DOMAIN answer /\ answer.success,
                answer |-> answer, toasts |-> <<>>]
  /\ UNCHANGED <<configuration, service>>

\* the rest of handleFormSubmit once submitForm answered: the reset on
\* success, and setIsSubmitting(false) in the finally block
submitFormSettles(answer) ==
  LET success == "threw" \notin DOMAIN answer /\ answer.success
  IN  /\ app.inFlight > 0
      /\ IF success
           THEN /\ formData' = initialTransitoData
                /\ formDataKeys' = initialTransitoDataKeys
                /\ app' = [resetFormToInitialState(app) EXCEPT
                             !.isSubmitting = FALSE, !.inFlight = @ - 1]
           ELSE /\ app' = [app EXCEPT !.isSubmitting = FALSE, !.inFlight = @ - 1]
                /\ UNCHANGED <<formData, formDataKeys>>
      /\ result' = [op |-> "submitFormSettled", success |-> success,
                    answer |-> answer,
                    toasts |->
                      IF "threw" \in DOMAIN answer
                        THEN <<"Error inesperado al enviar el formulario">>
                        ELSE <<answer.message>>]
      /\ UNCHANGED <<configuration, service>>

\* a render of App: the call of useTransitoFormCompleteness with the form
\* manager's isFormComplete, whatever it is, and the effective form type
renderCompleteness(standardIsFormComplete) ==
  /\ result' = [op |-> "useTransitoFormCompleteness",
                standardIsFormComplete |-> standardIsFormComplete,
                formType |-> getEffectiveFormType(app),
                value |-> useTransitoFormCompleteness(
                            formData, standardIsFormComplete,
                            getEffectiveFormType(app),
                            formConfigurationKeys, formConfiguration)]
  /\ UNCHANGED <<formData, formDataKeys, configuration, app, service>>

(***************************************************************************)
(* One session of the App: order lookup, bypass, the three forms, the      *)
(* prompt files, and the submit button                                     *)
(***************************************************************************)
MaxPromptLoads == 1

OrderNumber == <<"1", "0", "0", "1">>

ConfirmationCode == <<"c", "1">>

\* the order handleOrderLookup sets when the check allows the bypass
BypassOrder ==
  [id |-> Str(BypassMode),
   title |-> Str(<<"B", "y", "p", "a", "s", "s", " ", "M", "o", "d", "e">>)]

ProcessedOrderData == [processedDate |-> Str(<<"d">>)]

\* the answers of apiService.checkOrderProcessed: the bodies api/validation.ts
\* sends, the record of its catch block, and a JSON null
ValidationResponses ==
  {[success |-> TRUE, isProcessed |-> Null, allowBypass |-> TRUE],
   [success |-> TRUE, isProcessed |-> ProcessedOrderData],
   [success |-> TRUE, isProcessed |-> Null],
   [success |-> FALSE, isProcessed |-> Null],
   Null}

\* the answers of apiService.lookupOrder: an order, the 404 of api/orders.ts,
\* the record of its catch block for a rejected fetch, a failure without a
\* message, and a JSON null
LookupResponses ==
  {[success |-> TRUE, data |-> TransitoOrder],
   [success |-> TRUE, data |-> TutelaOrder],
   [success |-> FALSE,
    message |-> "Numero de pedido o codigo de confirmacion no encontrado en nuestros registros"],
   [success |-> FALSE, message |-> "Failed to fetch"],
   [success |-> FALSE],
   Null}

BypassFormTypes == {"tutela", "peticion", "transito"}

\* response.promptFiles of a successful getPromptFilesWithContent
LoadedPromptFiles == [prompt |-> Str(<<"p">>)]

SessionEmails == {Str(<<>>), Str(ValidEmail)}

SessionValuesOf(fieldId) ==
  IF fieldId = "notificationEmail" THEN SessionEmails
  ELSE IF fieldId = "procedureType" THEN {Str(<<>>), Str(Otro)}
  ELSE {Str(<<"a">>)}

\* the effect on [usePreviousEmail, tutelaData.email,
\* peticionData.responseEmail, transitoData.notificationEmail], run after a
\* render from a, transitoData to b, transitoData2
afterEmailEffect(a, transitoData, b, transitoData2) ==
  IF \/ a.usePreviousEmail # b.usePreviousEmail
     \/ a.tutelaData.email # b.tutelaData.email
     \/ a.peticionData.responseEmail # b.peticionData.responseEmail
     \/ transitoData["notificationEmail"] # transitoData2["notificationEmail"]
    THEN usePreviousEmailEffect(b, transitoData2)
    ELSE b

MockOutlookEmail ==
  <<"s", "o", "y", "e", "l", "s", "x", "b", "b", "s", "x", "@",
    "o", "u", "t", "l", "o", "o", "k", ".", "c", "o", "m">>

MockGmailEmail ==
  <<"s", "o", "y", "e", "l", "s", "x", "b", "b", "s", "x", "@",
    "g", "m", "a", "i", "l", ".", "c", "o", "m">>

\* the first words of mockTransitoData.virtualAudienceReason, a text of 202
\* characters
MockReason ==
  <<"P", "o", "r", " ", "m", "o", "t", "i", "v", "o", "s", " ", "d", "e", " ",
    "t", "r", "a", "b", "a", "j", "o">>

\* lib/mockData.ts, for the fields of the three forms that this model holds
mockTutelaData == [email |-> Str(MockOutlookEmail)]

mockPeticionData == [responseEmail |-> Str(MockOutlookEmail)]

mockTransitoData ==
  [notificationEmail |-> Str(MockGmailEmail),
   procedureType |-> Str(<<>>),
   virtualAudienceReason |-> Str(MockReason)]

mockFooterData == [deliveryEmail |-> Str(MockOutlookEmail)]

\* Object.keys of the mock data of a form type
mockDataKeys(formType) ==
  IF formType = "tutela" THEN <<"email">>
  ELSE IF formType = "peticion" THEN <<"responseEmail">>
  ELSE IF formType = "transito"
    THEN <<"notificationEmail", "procedureType", "virtualAudienceReason">>
  ELSE <<>>

getMockDataForFormType(formType) ==
  IF formType = "tutela" THEN mockTutelaData
  ELSE IF formType = "peticion" THEN mockPeticionData
  ELSE IF formType = "transito" THEN mockTransitoData
  ELSE Null

\* Object.entries(mockData).forEach(([fieldId, value]) => update(fieldId, value))
fillFields(data, mockData) ==
  [fieldId \in DOMAIN data \cup DOMAIN mockData |->
     IF fieldId \in DOMAIN mockData THEN mockData[fieldId] ELSE data[fieldId]]

\* the effect of useAutoFill on [effectiveFormType, ..., orderLookupCompleted]
\* after a render from a to b that left the transito data alone, and then the
\* effect on the emails after the render that shows the filled data
useAutoFill(a, b, transitoData, keys) ==
  LET effectiveFormType == getEffectiveFormType(b)
      mockData == getMockDataForFormType(effectiveFormType)
      mockKeys == mockDataKeys(effectiveFormType)
      filled ==
        [b EXCEPT
           !.tutelaData = IF effectiveFormType = "tutela"
                            THEN fillFields(@, mockData) ELSE @,
           !.tutelaDataKeys = IF effectiveFormType = "tutela"
                                THEN insertKeys(@, mockKeys) ELSE @,
           !.peticionData = IF effectiveFormType = "peticion"
                              THEN fillFields(@, mockData) ELSE @,
           !.peticionDataKeys = IF effectiveFormType = "peticion"
                                  THEN insertKeys(@, mockKeys) ELSE @,
           !.deliveryEmail = mockFooterData.deliveryEmail]
      transitoData2 == IF effectiveFormType = "transito"
                         THEN fillFields(transitoData, mockData)
                         ELSE transitoData
      keys2 == IF effectiveFormType = "transito"
                 THEN insertKeys(keys, mockKeys) ELSE keys
  IN  IF \/ ~b.autoFill
         \/ effectiveFormType = NullFormType
         \/ ~b.orderLookupCompleted
         \/ /\ getEffectiveFormType(a) = effectiveFormType
            /\ a.orderLookupCompleted = b.orderLookupCompleted
        THEN [app |-> b, formData |-> transitoData, formDataKeys |-> keys]
        ELSE [app |-> afterEmailEffect(b, transitoData, filled, transitoData2),
              formData |-> transitoData2,
              formDataKeys |-> keys2]

\* the effect on [orderValidation, bypassFormType, order.id, order.items],
\* run after a handler that set one of them
afterPromptFilesEffect(a) ==
  IF getEffectiveFormType(a) # NullFormType
    THEN [a EXCEPT !.promptLoads = @ + 1]
    ELSE [a EXCEPT !.promptFiles = EmptyObject]

\* loadPromptFilesForForm once getPromptFilesWithContent answered
loadPromptFilesSettles(loaded) ==
  /\ app.promptLoads > 0
  /\ app' = [app EXCEPT !.promptLoads = @ - 1,
                        !.promptFiles = IF loaded THEN LoadedPromptFiles
                                        ELSE EmptyObject]
  /\ result' = [op |-> "loadPromptFilesForForm",
                toasts |-> IF loaded THEN <<>>
                           ELSE <<"Error al cargar configuracion">>]
  /\ UNCHANGED <<formData, formDataKeys, configuration, service>>

setOrderNumberField(value) ==
  /\ ~app.isLoading
  /\ app' = [app EXCEPT !.orderNumberField = value]
  /\ result' = NoCall
  /\ UNCHANGED <<formData, formDataKeys, configuration, service>>

setConfirmationCodeField(value) ==
  /\ ~app.isLoading
  /\ app' = [app EXCEPT !.confirmationCodeField = value]
  /\ result' = NoCall
  /\ UNCHANGED <<formData, formDataKeys, configuration, service>>

\* onValueChange of the form type selector of the bypass mode
setBypassFormType(value) ==
  LET filled ==
        useAutoFill(app,
                    afterPromptFilesEffect([app EXCEPT !.bypassFormType = value]),
                    formData, formDataKeys)
  IN  /\ app.orderValidation # Null /\ app.orderValidation.allowBypass
      /\ ~app.isLoading
      /\ value # app.bypassFormType
      /\ app.promptLoads < MaxPromptLoads
      /\ app' = filled.app
      /\ formData' = filled.formData
      /\ formDataKeys' = filled.formDataKeys
      /\ result' = NoCall
      /\ UNCHANGED <<configuration, service>>

updateTutelaField(fieldId, value) ==
  /\ formRendered(app, "tutela")
  /\ app' = afterEmailEffect(app, formData,
                             [app EXCEPT !.tutelaData = setField(@, fieldId, value),
                                         !.tutelaDataKeys = insertKey(@, fieldId)],
                             formData)
  /\ result' = NoCall
  /\ UNCHANGED <<formData, formDataKeys, configuration, service>>

updatePeticionField(fieldId, value) ==
  /\ formRendered(app, "peticion")
  /\ app' = afterEmailEffect(app, formData,
                             [app EXCEPT !.peticionData = setField(@, fieldId, value),
                                         !.peticionDataKeys = insertKey(@, fieldId)],
                             formData)
  /\ result' = NoCall
  /\ UNCHANGED <<formData, formDataKeys, configuration, service>>

\* a lookup that also calls resetTransitoForm
handleOrderLookup_resetsTransito ==
  /\ ~app.isLoading
  /\ trim(app.orderNumberField.str) # <<>>
  /\ trim(app.confirmationCodeField.str) # <<>>
  /\ formData' = initialTransitoData
  /\ formDataKeys' = initialTransitoDataKeys
  /\ app' = afterEmailEffect(app, formData,
              afterPromptFilesEffect(
                [app EXCEPT !.isLoading = TRUE,
                            !.orderValidation = Null,
                            !.bypassFormType = "",
                            !.orderLookupCompleted = FALSE,
                            !.promptFiles = EmptyObject,
                            !.tutelaData = initialTutelaData,
                            !.tutelaDataKeys = initialTutelaDataKeys,
                            !.peticionData = initialPeticionData,
                            !.peticionDataKeys = initialPeticionDataKeys,
                            !.order = EmptyOrder,
                            !.lookup = "checkOrderProcessed",
                            !.calls = <<"checkOrderProcessed">>]),
              formData')
  /\ result' = [op |-> "handleOrderLookup", toasts |-> <<>>]
  /\ UNCHANGED <<configuration, service>>

\* a click on the lookup button, disabled while loading or while a field
\* trims to '': handleOrderLookup up to the await of checkOrderProcessed
handleOrderLookup ==
  /\ ~app.isLoading
  /\ trim(app.orderNumberField.str) # <<>>
  /\ trim(app.confirmationCodeField.str) # <<>>
  /\ app' = afterEmailEffect(app, formData,
              afterPromptFilesEffect(
                [app EXCEPT !.isLoading = TRUE,
                            !.orderValidation = Null,
                            !.bypassFormType = "",
                            !.orderLookupCompleted = FALSE,
                            !.promptFiles = EmptyObject,
                            !.tutelaData = initialTutelaData,
                            !.tutelaDataKeys = initialTutelaDataKeys,
                            !.peticionData = initialPeticionData,
                            !.peticionDataKeys = initialPeticionDataKeys,
                            !.order = EmptyOrder,
                            !.lookup = "checkOrderProcessed",
                            !.calls = <<"checkOrderProcessed">>]),
              formData)
  /\ result' = [op |-> "handleOrderLookup", toasts |-> <<>>]
  /\ UNCHANGED <<formData, formDataKeys, configuration, service>>

\* a handler that records a processed order and goes on to lookupOrder
checkOrderProcessedSettles_ignoresProcessed(validationResponse) ==
  /\ app.lookup = "checkOrderProcessed"
  /\ IF validationResponse = Null
       THEN /\ app' = [app EXCEPT !.isLoading = FALSE, !.lookup = "idle"]
            /\ result' = [op |-> "handleOrderLookup", toasts |-> <<"Error">>]
            /\ UNCHANGED <<formData, formDataKeys>>
     ELSE IF "allowBypass" \in DOMAIN validationResponse
             /\ validationResponse.allowBypass
       THEN LET filled ==
                  useAutoFill(app,
                    afterPromptFilesEffect(
                      [app EXCEPT !.orderValidation =
                                    [isProcessed |-> FALSE, allowBypass |-> TRUE],
                                  !.order = BypassOrder,
                                  !.orderLookupCompleted = TRUE,
                                  !.isLoading = FALSE,
                                  !.lookup = "idle"]),
                    formData, formDataKeys)
            IN  /\ app' = filled.app
                /\ formData' = filled.formData
                /\ formDataKeys' = filled.formDataKeys
                /\ result' = [op |-> "handleOrderLookup", toasts |-> <<>>]
     ELSE /\ app' = afterPromptFilesEffect(
                      [app EXCEPT !.orderValidation =
                                    [isProcessed |->
                                       validationResponse.success
                                       /\ validationResponse.isProcessed # Null,
                                     allowBypass |-> FALSE],
                                  !.lookup = "lookupOrder",
                                  !.calls = Append(@, "lookupOrder")])
          /\ result' = NoCall
          /\ UNCHANGED <<formData, formDataKeys>>
  /\ UNCHANGED <<configuration, service>>

\* handleOrderLookup once checkOrderProcessed answered, up to its return or
\* to the await of lookupOrder
checkOrderProcessedSettles(validationResponse) ==
  /\ app.lookup = "checkOrderProcessed"
  /\ IF validationResponse = Null
       THEN /\ app' = [app EXCEPT !.isLoading = FALSE, !.lookup = "idle"]
            /\ result' = [op |-> "handleOrderLookup",
                          toasts |-> <<"Error al consultar el pedido. Intentalo de nuevo.">>]
            /\ UNCHANGED <<formData, formDataKeys>>
     ELSE IF "allowBypass" \in DOMAIN validationResponse
             /\ validationResponse.allowBypass
       THEN LET filled ==
                  useAutoFill(app,
                    afterPromptFilesEffect(
                      [app EXCEPT !.orderValidation =
                                    [isProcessed |-> FALSE, allowBypass |-> TRUE],
                                  !.order = BypassOrder,
                                  !.orderLookupCompleted = TRUE,
                                  !.isLoading = FALSE,
                                  !.lookup = "idle"]),
                    formData, formDataKeys)
            IN  /\ app' = filled.app
                /\ formData' = filled.formData
                /\ formDataKeys' = filled.formDataKeys
                /\ result' = [op |-> "handleOrderLookup", toasts |-> <<>>]
     ELSE IF validationResponse.success /\ validationResponse.isProcessed # Null
       THEN /\ app' = afterPromptFilesEffect(
                        [app EXCEPT !.orderValidation =
                                      [isProcessed |-> TRUE, allowBypass |-> FALSE],
                                    !.isLoading = FALSE,
                                    !.lookup = "idle"])
            /\ result' = [op |-> "handleOrderLookup",
                          toasts |-> <<"Esta orden ya fue procesada anteriormente">>]
            /\ UNCHANGED <<formData, formDataKeys>>
     ELSE /\ app' = afterPromptFilesEffect(
                      [app EXCEPT !.orderValidation =
                                    [isProcessed |-> FALSE, allowBypass |-> FALSE],
                                  !.lookup = "lookupOrder",
                                  !.calls = Append(@, "lookupOrder")])
          /\ result' = NoCall
          /\ UNCHANGED <<formData, formDataKeys>>
  /\ UNCHANGED <<configuration, service>>

\* handleOrderLookup once lookupOrder answered
lookupOrderSettles(response) ==
  /\ app.lookup = "lookupOrder"
  /\ IF response = Null
       THEN /\ app' = [app EXCEPT !.isLoading = FALSE, !.lookup = "idle"]
            /\ result' = [op |-> "handleOrderLookup",
                          toasts |-> <<"Error al consultar el pedido. Intentalo de nuevo.">>]
            /\ UNCHANGED <<formData, formDataKeys>>
     ELSE IF ~response.success /\ "data" \notin DOMAIN response
       THEN /\ app' = [app EXCEPT !.isLoading = FALSE, !.lookup = "idle"]
            /\ result' = [op |-> "handleOrderLookup",
                          toasts |->
                            IF "message" \in DOMAIN response
                              THEN <<response.message>>
                              ELSE <<"Numero de pedido no encontrado">>]
            /\ UNCHANGED <<formData, formDataKeys>>
     ELSE LET filled ==
                useAutoFill(app,
                  afterPromptFilesEffect(
                    [app EXCEPT !.order = response.data,
                                !.orderLookupCompleted = TRUE,
                                !.isLoading = FALSE,
                                !.lookup = "idle"]),
                  formData, formDataKeys)
          IN  /\ app.promptLoads < MaxPromptLoads
              /\ app' = filled.app
              /\ formData' = filled.formData
              /\ formDataKeys' = filled.formDataKeys
              /\ result' = [op |-> "handleOrderLookup",
                            toasts |-> <<"Orden encontrada y lista para procesar">>]
  /\ UNCHANGED <<configuration, service>>

\* a click on the submit button, which is drawn with the footer and is
\* disabled unless isButtonEnabled
clickSubmit ==
  LET validationResult ==
        mainFormValidation(app, formData, formConfigurationKeys, formConfiguration, conditionalFields)
      footerValidation ==
        validateFooterFields(app.deliveryEmail, app.usePreviousEmail,
                             app.footerValidators)
      isComplete ==
        mainFormComplete(app, formData, formConfigurationKeys, formConfiguration)
  IN  /\ footerRendered(app)
      /\ isButtonEnabled(app, combinedValidation(validationResult, footerValidation),
                         isComplete,
                         isFooterComplete(app.deliveryEmail, app.usePreviousEmail))
      /\ handleFormSubmit

InitSession ==
  /\ formConfiguration = RequiredReasonSchema
  /\ formConfigurationKeys = TransitoSchemaKeys
  /\ conditionalFields = transitoConditionalFields
  /\ formData = initialTransitoData
  /\ formDataKeys = initialTransitoDataKeys
  /\ result = NoCall
  /\ app \in {[initialApp EXCEPT !.footerValidators = v, !.autoFill = f] :
                v \in FooterValidatorLists, f \in BOOLEAN}
  /\ service = idleService

NextSession ==
  \/ setOrderNumberField(Str(OrderNumber))
  \/ setConfirmationCodeField(Str(ConfirmationCode))
  \/ handleOrderLookup
  \/ \E validationResponse \in ValidationResponses :
       checkOrderProcessedSettles(validationResponse)
  \/ \E response \in LookupResponses : lookupOrderSettles(response)
  \/ \E value \in BypassFormTypes : setBypassFormType(value)
  \/ \E loaded \in BOOLEAN : loadPromptFilesSettles(loaded)
  \/ \E value \in SessionEmails : updateTutelaField("email", value)
  \/ \E value \in SessionEmails : updatePeticionField("responseEmail", value)
  \/ \E fieldId \in DOMAIN initialTransitoData :
       \E value \in SessionValuesOf(fieldId) : handleTransitoChange(fieldId, value)
  \/ \E value \in SessionEmails : setDeliveryEmail(value)
  \/ \E checked \in BOOLEAN : setUsePreviousEmail(checked)
  \/ clickSubmit
  \/ \E answer \in SubmitAnswers : submitFormSettles(answer)

SpecSession == InitSession /\ [][NextSession]_vars

NextApp ==
  \/ \E fieldId \in DOMAIN initialTransitoData : \E value \in AppValuesOf(fieldId) :
       handleTransitoChange(fieldId, value)
  \/ \E value \in DeliveryEmails : updateTutelaField("email", value)
  \/ \E value \in DeliveryEmails : updatePeticionField("responseEmail", value)
  \/ \E value \in DeliveryEmails : setDeliveryEmail(value)
  \/ \E checked \in BOOLEAN : setUsePreviousEmail(checked)
  \/ \E standardIsFormComplete \in BOOLEAN :
       renderCompleteness(standardIsFormComplete)
  \/ handleFormSubmit
  \/ \E answer \in SubmitAnswers : submitFormSettles(answer)

SpecApp == InitApp /\ [][NextApp]_vars

(***************************************************************************)
(* One FormSubmissionService and its submitForm calls, step by step        *)
(***************************************************************************)
X == Str(<<"x">>)

Blank == Str(<<" ">>)

Empty == Str(<<>>)

\* form data sent with a request: transito data (complete, without a dynamic
\* field, with a blank base field, with an array), tutela data (complete,
\* without facts), and none
RequestFormData ==
  {EmptyObject,
   [typeId |-> X, idNumber |-> X, procedureType |-> X],
   [typeId |-> X, idNumber |-> X, procedureType |-> Empty],
   [typeId |-> Blank, idNumber |-> X, procedureType |-> X],
   [typeId |-> X, idNumber |-> X, procedureType |-> Arr(<<X>>)],
   [userName |-> X, email |-> X, facts |-> X, expectation |-> X],
   [userName |-> X, email |-> X, facts |-> Empty, expectation |-> X]}

RequestOrders ==
  {[id |-> X, orderNumber |-> X],
   [id |-> Str(BypassMode), orderNumber |-> X],
   [id |-> X, orderNumber |-> Empty]}

PromptFile(content, handle) == [content |-> content, handle |-> handle, name |-> X]

RequestPromptContents ==
  {Undefined,
   PromptContent(<<>>, EmptyObject),
   PromptContent(<<"procedureType">>, [procedureType |-> PromptFile(X, X)]),
   PromptContent(<<"procedureType">>, [procedureType |-> PromptFile(Blank, X)]),
   PromptContent(<<"other">>, [other |-> PromptFile(X, X)]),
   PromptContent(<<"procedureType", "other">>,
                 [procedureType |-> PromptFile(X, X), other |-> PromptFile(X, Empty)]),
   PromptContent(<<"other", "procedureType">>,
                 [procedureType |-> PromptFile(Blank, X), other |-> PromptFile(X, Empty)])}

Requests ==
  [formType : {"", "tutela", "peticion", "transito"},
   formData : RequestFormData,
   orderData : RequestOrders,
   promptContent : RequestPromptContents,
   deliveryEmail : {Empty, Blank, Str(ValidEmail)},
   shopName : {Empty, X}]

\* what fetch gives: a rejection, or a response
Responses ==
  {[rejected |-> TRUE]}
  \cup [ok : BOOLEAN, bodyUsed : BOOLEAN,
        contentType : {Null, Str(ApplicationJson), Str(<<"t", "e", "x", "t">>)}]

JsonStatuses ==
  {Undefined, Num(200), Num(500), Num(0), Str(<<"2", "0", "0">>)}

\* what response.json() gives: a rejection, null, or an object
JsonBodies ==
  {[parse |-> "fails"], [json |-> Null]}
  \cup {[json |-> [status |-> s, success |-> Undefined, message |-> Undefined]] :
          s \in JsonStatuses}
  \cup {[json |-> [status |-> s, success |-> Bool(b), message |-> m]] :
          s \in JsonStatuses, b \in BOOLEAN,
          m \in {Undefined, Message(<<"webhook">>, <<>>, <<>>)}}

TextBody == [text |-> X]

\* the bodies a response can give: a JSON content type is read with
\* response.json(), any other with response.text(), and either read can
\* reject
bodiesOf(response) ==
  IF response.contentType # Null
       /\ includes(response.contentType.str, ApplicationJson)
    THEN JsonBodies
    ELSE {[parse |-> "fails"], TextBody}

ArchiveResults ==
  {[threw |-> TRUE]} \cup {[success |-> b] : b \in BOOLEAN}

InitSubmit ==
  /\ formConfiguration = TransitoSchema
  /\ formConfigurationKeys = TransitoSchemaKeys
  /\ conditionalFields = transitoConditionalFields
  /\ formData = initialTransitoData
  /\ formDataKeys = initialTransitoDataKeys
  /\ result = NoCall
  /\ app = initialApp
  /\ service \in {idleService, [idleService EXCEPT !.webhookUrl = <<>>]}

\* submitForm up to the await of fetch
submitForm(request) ==
  LET call == [idleService EXCEPT !.webhookUrl = service.webhookUrl,
                                  !.request = request]
      failure == preValidation(service.webhookUrl, request)
  IN  /\ service.pc = "idle"
      /\ service' = IF failure # Null
                      THEN [call EXCEPT !.completion = failure, !.pc = "done"]
                      ELSE [call EXCEPT !.posts = @ + 1, !.pc = "fetch"]
      /\ UNCHANGED <<formData, formDataKeys, configuration, result, app>>

\* the rest of submitForm once the inner try has set result and
\* webhookStatus: the import of apiService is awaited, or the result returned
afterResponseRead(s, read) ==
  IF archivesOrder(read.webhookStatus, s.request)
    THEN [s EXCEPT !.result = read.result,
                   !.webhookStatus = read.webhookStatus,
                   !.pc = "import"]
    ELSE [s EXCEPT !.result = read.result,
                   !.webhookStatus = read.webhookStatus,
                   !.completion = [returned |-> read.result],
                   !.pc = "done"]

\* the await of fetch settles: a rejection and a response that is not OK end
\* the call in the catch block; a response whose body is already used is not
\* read, and the call goes on in the same continuation; any other body is
\* awaited
fetchSettles(response) ==
  /\ service.pc = "fetch"
  /\ service' =
       IF response = [rejected |-> TRUE]
         THEN [service EXCEPT !.response = response,
                              !.completion = catchError("Failed to fetch", <<>>),
                              !.pc = "done"]
       ELSE IF ~response.ok
         THEN [service EXCEPT !.response = response,
                              !.completion = catchError("Error del webhook: ", <<>>),
                              !.pc = "done"]
       ELSE IF response.bodyUsed
         THEN afterResponseRead([service EXCEPT !.response = response],
                                readResponse(response, Null))
       ELSE [service EXCEPT !.response = response, !.pc = "body"]
  /\ UNCHANGED <<formData, formDataKeys, configuration, result, app>>

\* the await of response.json() or response.text() settles, and the import
\* of apiService is awaited or the result returned
readBody(body) ==
  LET read == readResponse(service.response, body)
  IN  /\ service.pc = "body"
      /\ body \in bodiesOf(service.response)
      /\ service' = afterResponseRead([service EXCEPT !.body = body], read)
      /\ UNCHANGED <<formData, formDataKeys, configuration, result, app>>

\* the import of apiService settles: archiveProcessedOrder is called, or the
\* rejection is caught
importSettles(imported) ==
  LET final == [service.result EXCEPT
                  !.message = appendToMessage(@, archiveSuffix([threw |-> TRUE]))]
  IN  /\ service.pc = "import"
      /\ service' =
           IF imported
             THEN [service EXCEPT !.archives = @ + 1, !.pc = "archive"]
             ELSE [service EXCEPT !.archiveResult = [threw |-> TRUE],
                                  !.result = final,
                                  !.completion = [returned |-> final],
                                  !.pc = "done"]
      /\ UNCHANGED <<formData, formDataKeys, configuration, result, app>>

\* the await of archiveProcessedOrder settles
archiveSettles(archiveResult) ==
  LET final == [service.result EXCEPT
                  !.message = appendToMessage(@, archiveSuffix(archiveResult))]
  IN  /\ service.pc = "archive"
      /\ service' = [service EXCEPT !.archiveResult = archiveResult,
                                    !.result = final,
                                    !.completion = [returned |-> final],
                                    !.pc = "done"]
      /\ UNCHANGED <<formData, formDataKeys, configuration, result, app>>

NextSubmit ==
  \/ \E request \in Requests : submitForm(request)
  \/ \E response \in Responses : fetchSettles(response)
  \/ \E body \in JsonBodies \cup {TextBody} : readBody(body)
  \/ \E imported \in BOOLEAN : importSettles(imported)
  \/ \E archiveResult \in ArchiveResults : archiveSettles(archiveResult)

SpecSubmit == InitSubmit /\ [][NextSubmit]_vars

(***************************************************************************)
(* Properties                                                              *)
(***************************************************************************)
Reason == "virtualAudienceReason"

\* the rules declared for a field, as a list
rulesOf(fieldName) ==
  IF fieldName \in DOMAIN conditionalFields
    THEN IF DOMAIN conditionalFields[fieldName] = {"many"}
           THEN conditionalFields[fieldName].many
           ELSE <<conditionalFields[fieldName].one>>
    ELSE <<>>

rulesOfType(fieldName, ty) ==
  {r \in SeqToSet(rulesOf(fieldName)) : r.type = ty}

holds(rule) == evaluateGenericCondition(rule, formData)

\* C1: a field that is not shown never gets an error from a validation pass,
\* in the generic pass and in the transito pass, even when it is required and
\* its value is empty or absent.
C1_HiddenFieldsNeverError ==
  /\ result.op = "validateForm" =>
       \A f \in DOMAIN formConfiguration :
         ~shouldShowGenericField(f, formData, conditionalFields)
           => f \notin DOMAIN result.value.errors
  /\ (result.op = "validateTransito" /\ "errors" \in DOMAIN result.value) =>
       \A f \in DOMAIN formData :
         ~shouldShowFieldByName(f, formData)
           => f \notin DOMAIN result.value.errors

C1_Witness ==
  /\ result.op = "validateForm"
  /\ ~shouldShowGenericField(Reason, formData, conditionalFields)
  /\ isGenericFieldRequired(Reason, formData, conditionalFields, formConfiguration)
  /\ ~Truthy(Get(formData, Reason))
  /\ Reason \in SeqToSet(result.value.skippedFields)

\* C2: a visible and required field whose value is a sequence gets an error
\* exactly when the sequence is empty.
C2_EmptySequenceFails ==
  result.op = "validateForm" =>
    \A f \in DOMAIN formConfiguration :
      ( /\ shouldShowGenericField(f, formData, conditionalFields)
        /\ isGenericFieldRequired(f, formData, conditionalFields, formConfiguration)
        /\ isArray(Get(formData, f)) )
      => (f \in DOMAIN result.value.errors <=> Get(formData, f).arr = <<>>)

\* C3: in the transito scenario (reason not base-required, one show rule on
\* procedureType = 'audiencia-virtual'), with procedureType = 'audiencia-virtual'
\* the reason is shown and required, an empty reason gets the error
\* '<label> es requerido.' and a 12-character reason gets none.
C3_TransitoScenario ==
  ( /\ formConfiguration = TransitoSchema
    /\ conditionalFields = transitoConditionalFields
    /\ Get(formData, "procedureType") = Str(AudienciaVirtual) )
  => /\ result.op = "render" =>
          /\ Reason \in SeqToSet(result.visibleFields)
          /\ Reason \in SeqToSet(result.requiredFields)
     /\ result.op = "validateForm" =>
          /\ Get(formData, Reason) = Str(<<>>) =>
               /\ Reason \in DOMAIN result.value.errors
               /\ result.value.errors[Reason] = requiredMessage(ReasonLabel)
          /\ Get(formData, Reason) = Str(MotivoLargo) =>
               Reason \notin DOMAIN result.value.errors

\* C4: with several show rules on a field, the field is visible iff every one
\* of them holds.
C4_ConjunctiveShow ==
  result.op = "render" =>
    \A f \in DOMAIN formConfiguration :
      rulesOfType(f, "show") # {} =>
        (f \in SeqToSet(result.visibleFields)
           <=> \A r \in rulesOfType(f, "show") : holds(r))

C4_Witness ==
  /\ result.op = "render"
  /\ \E r1, r2 \in rulesOfType(Reason, "show") : holds(r1) /\ ~holds(r2)
  /\ Reason \notin SeqToSet(result.visibleFields)

\* C5: a field with no rules, or with rules of kind require only, is visible
\* in every snapshot, also one with missing keys.
C5_DefaultVisibility ==
  result.op = "render" =>
    \A f \in DOMAIN formConfiguration :
      rulesOfType(f, "show") = {} => f \in SeqToSet(result.visibleFields)

C5_Witness ==
  /\ result.op = "render"
  /\ "procedureType" \notin DOMAIN formData
  /\ rulesOfType(Reason, "show") = {}
  /\ \E r \in rulesOfType(Reason, "require") : ~holds(r)
  /\ Reason \in SeqToSet(result.visibleFields)

\* the static required flag of a field
baseRequired(f) ==
  /\ f \in DOMAIN formConfiguration
  /\ "required" \in DOMAIN formConfiguration[f]
  /\ formConfiguration[f].required = TRUE

\* C6: a field is required iff it is base-required or some rule of kind
\* require on it holds; so without require rules it is the base flag, and a
\* base-required field is required for any data.
C6_RequiredIsBaseOrConditional ==
  result.op = "render" =>
    \A f \in DOMAIN formConfiguration :
      /\ f \in SeqToSet(result.requiredFields)
           <=> (baseRequired(f) \/ \E r \in rulesOfType(f, "require") : holds(r))
      /\ rulesOfType(f, "require") = {} =>
           (f \in SeqToSet(result.requiredFields) <=> baseRequired(f))
      /\ baseRequired(f) => f \in SeqToSet(result.requiredFields)

C6_Witness ==
  /\ result.op = "render"
  /\ baseRequired(Reason)
  /\ rulesOfType(Reason, "require") # {}
  /\ \A r \in rulesOfType(Reason, "require") : ~holds(r)
  /\ Reason \in SeqToSet(result.requiredFields)

\* the string the evaluator compares: the dependency value as a string, an
\* absent value as the empty string
stringForm(data, key) ==
  IF key \in DOMAIN data THEN String(data[key]) ELSE <<>>

\* the candidate strings of a trigger
candidatesOf(when) ==
  IF isArray(when) THEN {String(when.arr[i]) : i \in DOMAIN when.arr}
  ELSE {String(when)}

containsFolded(value, candidate) ==
  includes(toLowerCase(value), toLowerCase(candidate))

\* C7: with a trigger list, containsAll holds iff the lower-cased value
\* contains every lower-cased candidate, contains iff it contains at least
\* one; 'solicito audiencia virtual' against ['audiencia', 'presencial'] is
\* true under contains and false under containsAll.
C7_ContainsAllVersusContains ==
  (result.op = "evaluate" /\ isArray(ruleUnderEvaluation.when)) =>
    LET value == stringForm(formData, "procedureType")
        candidates == candidatesOf(ruleUnderEvaluation.when)
        mode == matchModeOf(ruleUnderEvaluation)
    IN  /\ mode = "containsAll" =>
             (result.value <=> \A c \in candidates : containsFolded(value, c))
        /\ mode = "contains" =>
             (result.value <=> \E c \in candidates : containsFolded(value, c))
        /\ ( /\ value = SolicitoAudienciaVirtual
             /\ ruleUnderEvaluation.when
                  = Arr(<<Str(Audiencia), Str(Presencial)>>) ) =>
             /\ mode = "contains" => result.value
             /\ mode = "containsAll" => ~result.value

C7_Witness ==
  /\ result.op = "evaluate"
  /\ matchModeOf(ruleUnderEvaluation) = "containsAll"
  /\ ruleUnderEvaluation.when = Arr(<<Str(Audiencia), Str(Presencial)>>)
  /\ Get(formData, "procedureType") = Str(SolicitoAudienciaVirtual)
  /\ ~result.value

\* C8: a rule with matchMode exact, or with none, holds iff the string form
\* of the dependency value is equal, character for character, to one of the
\* candidates.
C8_ExactMode ==
  ( /\ result.op = "evaluate"
    /\ \/ "matchMode" \notin DOMAIN ruleUnderEvaluation
       \/ ruleUnderEvaluation.matchMode = "exact" ) =>
    (result.value
       <=> stringForm(formData, "procedureType")
             \in candidatesOf(ruleUnderEvaluation.when))

C8_Witness ==
  /\ result.op = "evaluate"
  /\ "matchMode" \notin DOMAIN ruleUnderEvaluation
  /\ ruleUnderEvaluation.when = Str(<<"a">>)
  /\ Get(formData, "procedureType") = Str(<<"A">>)
  /\ ~result.value

\* C9: in every match mode a rule with the single trigger s evaluates as the
\* same rule with the trigger [s].
C9_ScalarTriggerAsList ==
  (result.op = "evaluate" /\ isString(ruleUnderEvaluation.when)) =>
    result.value
      = evaluateGenericCondition(
          [ruleUnderEvaluation EXCEPT !.when = Arr(<<ruleUnderEvaluation.when>>)],
          formData)

C9_Witness ==
  /\ result.op = "evaluate"
  /\ matchModeOf(ruleUnderEvaluation) = "contains"
  /\ ruleUnderEvaluation.when = Str(<<"A">>)
  /\ Get(formData, "procedureType") = Str(<<"b", "a">>)
  /\ result.value

\* the snapshot with every absent key of the schema set to the empty string
withEmptyStrings(data) ==
  [k \in FieldNames |-> IF k \in DOMAIN data THEN data[k] ELSE Str(<<>>)]

\* C10: a query on a snapshot that lacks keys answers as on the same snapshot
\* with those keys set to the empty string: the evaluator in every match
\* mode, the visible and required fields, and the validation pass.
C10_MissingKeysAsEmpty ==
  /\ result.op = "evaluate" =>
       result.value
         = evaluateGenericCondition(ruleUnderEvaluation, withEmptyStrings(formData))
  /\ result.op = "render" =>
       /\ result.visibleFields
            = getVisibleFields(withEmptyStrings(formData), formConfigurationKeys, formConfiguration,
                               conditionalFields)
       /\ result.requiredFields
            = getRequiredFields(withEmptyStrings(formData), formConfigurationKeys, formConfiguration,
                                conditionalFields)
  /\ result.op = "validateForm" =>
       result.value
         = validateForm(withEmptyStrings(formData), formConfigurationKeys, formConfiguration,
                        conditionalFields)

C10_Witness ==
  /\ result.op = "evaluate"
  /\ "procedureType" \notin DOMAIN formData
  /\ "matchMode" \in DOMAIN ruleUnderEvaluation
  /\ matchModeOf(ruleUnderEvaluation) = "exact"
  /\ ruleUnderEvaluation.when = Arr(<<Str(<<"a">>), Str(<<>>)>>)
  /\ result.value

\* C11: for a visible and required field whose value is absent or a string,
\* the validation pass records '<label> es requerido.' iff the value is
\* absent or trims to empty; otherwise it records no error and lists the
\* field in validatedFields.
C11_RequiredStringCheck ==
  result.op = "validateForm" =>
    \A f \in DOMAIN formConfiguration :
      ( /\ shouldShowGenericField(f, formData, conditionalFields)
        /\ isGenericFieldRequired(f, formData, conditionalFields, formConfiguration)
        /\ (f \notin DOMAIN formData \/ isString(formData[f])) )
      => LET empty == f \notin DOMAIN formData \/ trim(formData[f].str) = <<>>
         IN  /\ empty =>
                  /\ f \in DOMAIN result.value.errors
                  /\ result.value.errors[f]
                       = <<formConfiguration[f].label, " es requerido.">>
                  /\ f \notin SeqToSet(result.value.validatedFields)
             /\ ~empty =>
                  /\ f \notin DOMAIN result.value.errors
                  /\ f \in SeqToSet(result.value.validatedFields)

C11_Witness ==
  /\ result.op = "validateForm"
  /\ shouldShowGenericField(Reason, formData, conditionalFields)
  /\ Reason \in DOMAIN formConfiguration
  /\ isGenericFieldRequired(Reason, formData, conditionalFields, formConfiguration)
  /\ Get(formData, Reason) = Str(<<" ">>)
  /\ Reason \in DOMAIN result.value.errors

\* a rule the declared types do not allow
isMalformed(rule) ==
  \/ "dependsOn" \notin DOMAIN rule
  \/ rule.type \notin RuleTypes
  \/ ("matchMode" \in DOMAIN rule /\ rule.matchMode \notin MatchModes)

hasMalformedRule ==
  \E f \in DOMAIN conditionalFields :
    \E r \in SeqToSet(rulesOf(f)) : isMalformed(r)

\* C12: a malformed rule (an unknown matchMode, a kind outside show and
\* require, no dependsOn) is rejected with a configuration error, so the
\* engine never returns the visible and required fields or a validation
\* result computed from a rule map that holds one.
C12_MalformedRulesRejected ==
  hasMalformedRule => result.op \notin {"render", "validateForm"}

\* the rules of a field that depend on the field itself
selfRulesOf(f) ==
  {r \in SeqToSet(rulesOf(f)) : "dependsOn" \in DOMAIN r /\ r.dependsOn = f}

hasSelfReference == \E f \in DOMAIN conditionalFields : selfRulesOf(f) # {}

\* C13: a rule that depends on the field it annotates is a caller error, so
\* the engine never returns the visible and required fields or a validation
\* result computed from a rule map that holds one.
C13_SelfReferenceRejected ==
  hasSelfReference => result.op \notin {"render", "validateForm"}

visibleNow(f) == shouldShowGenericField(f, formData, conditionalFields)

requiredNow(f) ==
  isGenericFieldRequired(f, formData, conditionalFields, formConfiguration)

\* a value the required check of the code lets through: present, and not a
\* string that trims to empty
passesValueCheck(f) ==
  /\ f \in DOMAIN formData
  /\ Truthy(formData[f])
  /\ isString(formData[f]) => trim(formData[f].str) # <<>>

\* C14 as claimed: validatedFields holds only fields that are visible and
\* required and whose value passed the required check.
C14_ValidatedOnlyRequired ==
  result.op = "validateForm" =>
    \A f \in SeqToSet(result.value.validatedFields) :
      visibleNow(f) /\ requiredNow(f) /\ passesValueCheck(f)

\* C14 as the code has it: validatedFields holds only visible fields of the
\* schema; one that is required passed the value check, one that is not
\* required is listed without any check of its value.
C14_ValidatedAreVisible ==
  result.op = "validateForm" =>
    \A f \in SeqToSet(result.value.validatedFields) :
      /\ f \in DOMAIN formConfiguration
      /\ visibleNow(f)
      /\ requiredNow(f) => passesValueCheck(f)

C14_Witness ==
  /\ result.op = "validateForm"
  /\ Reason \in SeqToSet(result.value.validatedFields)
  /\ visibleNow(Reason)
  /\ ~requiredNow(Reason)
  /\ ~passesValueCheck(Reason)

\* C15: after a validation pass a field is in skippedFields iff it is not
\* visible or has no configuration entry: in the generic pass, over the
\* fields of the schema (each has an entry); in the transito pass, over the
\* keys of the snapshot.
C15_SkippedIffHiddenOrUnconfigured ==
  /\ result.op = "validateForm" =>
       /\ \A f \in DOMAIN formConfiguration :
            f \in SeqToSet(result.value.skippedFields) <=> ~visibleNow(f)
       /\ SeqToSet(result.value.skippedFields) \subseteq DOMAIN formConfiguration
  /\ (result.op = "validateTransito" /\ "skippedFields" \in DOMAIN result.value) =>
       /\ \A f \in DOMAIN formData :
            f \in SeqToSet(result.value.skippedFields)
              <=> (~shouldShowFieldByName(f, formData)
                     \/ f \notin DOMAIN formConfiguration)
       /\ SeqToSet(result.value.skippedFields) \subseteq DOMAIN formData

C15_Witness ==
  /\ result.op = "validateTransito"
  /\ "skippedFields" \in DOMAIN result.value
  /\ Reason \notin DOMAIN formConfiguration
  /\ shouldShowFieldByName(Reason, formData)
  /\ Reason \in SeqToSet(result.value.skippedFields)
  /\ "procedureType" \notin SeqToSet(result.value.skippedFields)

\* the rule map with every rule of kind show removed
withoutShowRules ==
  [f \in DOMAIN conditionalFields |->
     [many |-> SelectSeq(rulesOf(f), LAMBDA r : r.type # "show")]]

\* C16: getRequiredFields is exactly the schema fields, in schema order, for
\* which isRequired holds, whether or not they are visible; removing the show
\* rules does not change it.
C16_RequiredFieldsIgnoreVisibility ==
  result.op = "render" =>
    /\ result.requiredFields
         = SelectSeq(formConfigurationKeys, LAMBDA f : requiredNow(f))
    /\ result.requiredFields
         = getRequiredFields(formData, formConfigurationKeys, formConfiguration, withoutShowRules)

C16_Witness ==
  /\ result.op = "render"
  /\ ~visibleNow(Reason)
  /\ requiredNow(Reason)
  /\ Reason \in SeqToSet(result.requiredFields)
  /\ Reason \notin SeqToSet(result.visibleFields)

\* C19: a validation pass reports one message per field, that of the first
\* failing check: in the transito pass a field that fails the required
\* check carries the required check's message.
C19_FirstFailingCheckWins ==
  (result.op = "validateTransito" /\ "threw" \notin DOMAIN result.value) =>
    \A f \in DOMAIN formData \cap DOMAIN formConfiguration :
      ( /\ f \in SeqToSet(getRequiredFieldsForCurrentState(formData))
        /\ shouldShowFieldByName(f, formData)
        /\ isValueMissing(Get(formData, f)) )
      => /\ f \in DOMAIN result.value.errors
         /\ result.value.errors[f] = requiredMessage(formConfiguration[f].label)

\* C20: a submit starts the webhook submission only when the validation
\* pass of the effective form type and the footer validation are both valid
\* and the form and the footer are complete (a peticion form holds its
\* required response email); a submit on invalid data starts none and leaves
\* isSubmitting as it was.
C20_ValidationGatesSubmission ==
  [][LET formValid ==
           mainFormValidation(app, formData, formConfigurationKeys, formConfiguration,
                              transitoConditionalFields).isValid
         footerValid ==
           validateFooterFields(app.deliveryEmail, app.usePreviousEmail,
                                app.footerValidators).isValid
         formComplete ==
           mainFormComplete(app, formData, formConfigurationKeys, formConfiguration)
         footerComplete ==
           isFooterComplete(app.deliveryEmail, app.usePreviousEmail)
     IN  /\ app'.inFlight > app.inFlight
            => /\ getEffectiveFormType(app) # NullFormType
               /\ formValid /\ footerValid /\ formComplete /\ footerComplete
               /\ getEffectiveFormType(app) = "peticion" =>
                    LET responseEmail == Get(app.peticionData, "responseEmail")
                    IN  isString(responseEmail) /\ trim(responseEmail.str) # <<>>
               /\ app'.isSubmitting
         /\ (result'.op = "handleFormSubmit" /\ ~(formValid /\ footerValid))
            => /\ app'.inFlight = app.inFlight
               /\ app'.isSubmitting = app.isSubmitting]_vars

C20_Witness ==
  /\ result.op = "handleFormSubmit"
  /\ result.toasts = <<"Por favor corrige los errores en el formulario">>
  /\ getEffectiveFormType(app) = "transito"
  /\ validateForm(formData, formConfigurationKeys, formConfiguration, conditionalFields).isValid
  /\ ~validateFooterFields(app.deliveryEmail, app.usePreviousEmail,
                           app.footerValidators).isValid
  /\ ~app.isSubmitting
  /\ app.inFlight = 0

\* the number of places of a validation result that hold the field: the keys
\* of errors, the entries of validatedFields and those of skippedFields
placesOf(f, value) ==
  (IF f \in DOMAIN value.errors THEN 1 ELSE 0)
  + Len(SelectSeq(value.validatedFields, LAMBDA g : g = f))
  + Len(SelectSeq(value.skippedFields, LAMBDA g : g = f))

\* C21: a validation pass puts every schema field in exactly one of errors,
\* validatedFields and skippedFields, puts no other id there, and puts a
\* visible field that is not required in validatedFields whatever its value.
C21_ValidatePartitionsSchema ==
  result.op = "validateForm" =>
    /\ \A f \in DOMAIN formConfiguration : placesOf(f, result.value) = 1
    /\ DOMAIN result.value.errors \cup SeqToSet(result.value.validatedFields)
         \cup SeqToSet(result.value.skippedFields) = DOMAIN formConfiguration
    /\ \A f \in DOMAIN formConfiguration :
         (visibleNow(f) /\ ~requiredNow(f))
           => f \in SeqToSet(result.value.validatedFields)

C21_Witness ==
  /\ result.op = "validateForm"
  /\ Reason \in DOMAIN formConfiguration
  /\ visibleNow(Reason) /\ ~requiredNow(Reason)
  /\ ~passesValueCheck(Reason)
  /\ Reason \in SeqToSet(result.value.validatedFields)
  /\ "procedureType" \in DOMAIN result.value.errors

\* the rule map with only the rules of one kind left
onlyRulesOfType(ty) ==
  [f \in DOMAIN conditionalFields |->
     [many |-> SelectSeq(rulesOf(f), LAMBDA r : r.type = ty)]]

\* C22: visibility is a function of the rules of kind show alone, and
\* requiredness of the base flag and the rules of kind require alone: on a
\* render the visible fields are those of the rule map without its other
\* rules, and so are the required fields.
C22_ShowAndRequireIndependent ==
  result.op = "render" =>
    /\ result.visibleFields
         = getVisibleFields(formData, formConfigurationKeys, formConfiguration, onlyRulesOfType("show"))
    /\ result.requiredFields
         = getRequiredFields(formData, formConfigurationKeys, formConfiguration,
                             onlyRulesOfType("require"))
    /\ \A f \in DOMAIN formConfiguration :
         /\ visibleNow(f)
              = shouldShowGenericField(f, formData, onlyRulesOfType("show"))
         /\ requiredNow(f)
              = isGenericFieldRequired(f, formData, onlyRulesOfType("require"),
                                       formConfiguration)

C22_Witness ==
  /\ result.op = "render"
  /\ \E r \in rulesOfType(Reason, "show") : holds(r)
  /\ \E r \in rulesOfType(Reason, "require") : ~holds(r)
  /\ ~baseRequired(Reason)
  /\ Reason \in SeqToSet(result.visibleFields)
  /\ Reason \notin SeqToSet(result.requiredFields)

\* the request of the call fails a check that precedes the POST
failsPreValidation ==
  \/ service.webhookUrl = <<>>
  \/ validateFormStructureThrows(service.request)
  \/ ~validateFormStructure(service.request).isValid
  \/ ~validatePayloadCompleteness(service.request).isValid

\* the POST was sent and failed: fetch rejected, or the status was not OK
postFailed ==
  /\ service.response # Null
  /\ \/ service.response = [rejected |-> TRUE]
     \/ ~service.response.ok

\* C23: a submitForm call sends at most one POST, sends none when the
\* webhook URL is unset or a check of the request fails, ends by returning
\* and never by throwing, and returns success = false with a message after
\* every such failure, a rejected fetch and a status that is not OK.
C23_FireOnceReportResult ==
  service.request # Null =>
    /\ service.posts <= 1
    /\ failsPreValidation => service.posts = 0
    /\ service.pc = "done" =>
         /\ DOMAIN service.completion = {"returned"}
         /\ (failsPreValidation \/ postFailed)
              => /\ service.completion.returned.success = FALSE
                 /\ service.completion.returned.message # Undefined

C23_Witness ==
  /\ service.pc = "done"
  /\ service.posts = 1
  /\ service.response # Null /\ service.response # [rejected |-> TRUE]
  /\ ~service.response.ok
  /\ service.completion.returned.success = FALSE

\* the success flag the answer of the webhook stands for: its own success
\* field when it is a JSON object that has one, true otherwise
successOfAnswer ==
  IF /\ ~service.response.bodyUsed
     /\ service.response.contentType = Str(ApplicationJson)
     /\ "json" \in DOMAIN service.body
     /\ service.body.json # Null
     /\ service.body.json.success # Undefined
    THEN service.body.json.success.bool
    ELSE TRUE

\* C24: a submitForm call archives the order at most once, only after an OK
\* answer whose JSON body has the number 200 in its status field, and never
\* for the order of bypass mode; whatever the archive call gives, the call
\* returns the success flag of the answer.
C24_ArchiveFollowsConfirmedDelivery ==
  /\ service.archives <= 1
  /\ service.archives = 1 =>
       /\ service.posts = 1
       /\ service.response.ok /\ ~service.response.bodyUsed
       /\ service.response.contentType = Str(ApplicationJson)
       /\ service.body.json.status = Num(200)
       /\ service.request.orderData.id # Str(BypassMode)
  /\ (service.pc = "done" /\ service.archiveResult # Null)
       => /\ service.completion.returned.success = successOfAnswer
          /\ service.completion.returned.message.appended
               = <<archiveSuffix(service.archiveResult)>>

C24_Witness ==
  /\ service.pc = "done"
  /\ service.archives = 1
  /\ service.archiveResult = [threw |-> TRUE]
  /\ service.completion.returned.success = TRUE

\* C29: a rule whose trigger is the empty list evaluates true in containsAll
\* mode and false in contains mode and in exact mode, for every snapshot; a
\* field whose one show rule is such a containsAll rule is rendered.
C29_EmptyTriggerList ==
  ruleUnderEvaluation.when = Arr(<<>>) =>
    /\ result.op = "evaluate" =>
         (result.value <=> matchModeOf(ruleUnderEvaluation) = "containsAll")
    /\ (result.op = "render"
        /\ matchModeOf(ruleUnderEvaluation) = "containsAll") =>
         \E i \in DOMAIN result.visibleFields :
           result.visibleFields[i] = "virtualAudienceReason"

C29_Witness ==
  /\ ruleUnderEvaluation.when = Arr(<<>>)
  /\ matchModeOf(ruleUnderEvaluation) = "containsAll"
  /\ result.op = "render"
  /\ Get(formData, "procedureType") = Str(<<"a", "b">>)
  /\ \E i \in DOMAIN result.visibleFields :
       result.visibleFields[i] = "virtualAudienceReason"

\* C28: for the form type 'transito' and a snapshot whose values are all
\* strings, useTransitoFormCompleteness is true exactly when the validation
\* pass over the same schema and rules is valid; for any other form type it
\* is the standardIsFormComplete it was given.
C28_CompletenessAgreesWithValidation ==
  result.op = "useTransitoFormCompleteness" =>
    IF result.formType = "transito"
      THEN (\A k \in DOMAIN formData : isString(formData[k])) =>
             (result.value
                <=> validateForm(formData, formConfigurationKeys, formConfiguration,
                                 transitoConditionalFields).isValid)
      ELSE result.value = result.standardIsFormComplete

C28_Witness ==
  /\ result.op = "useTransitoFormCompleteness"
  /\ result.formType = "transito"
  /\ formData["procedureType"] = Str(Otro)
  /\ formData["virtualAudienceReason"] = Str(<<>>)
  /\ formData["notificationEmail"] = Str(ValidEmail)
  /\ formConfiguration = RequiredReasonSchema
  /\ result.value
  /\ ~result.standardIsFormComplete

\* the gates of handleFormSubmit: validation of the form of the effective
\* form type and of the footer, completeness of that form and of the footer
submitGatesPass ==
  /\ getEffectiveFormType(app) # NullFormType
  /\ combinedValidation(
       mainFormValidation(app, formData, formConfigurationKeys, formConfiguration, conditionalFields),
       validateFooterFields(app.deliveryEmail, app.usePreviousEmail,
                            app.footerValidators)).isValid
  /\ mainFormComplete(app, formData, formConfigurationKeys, formConfiguration)
  /\ isFooterComplete(app.deliveryEmail, app.usePreviousEmail)

\* C25: isSubmitting becomes true only by a submit whose gates pass; it is
\* false once handleFormSubmit has completed, by a success result, a failure
\* result or an exception; and while it is true no submission starts, so at
\* most one is in flight.
C25_IsSubmittingReleased ==
  [][/\ (~app.isSubmitting /\ app'.isSubmitting)
          => (submitGatesPass /\ result'.op = "handleFormSubmit")
     /\ result'.op = "submitFormSettled" => ~app'.isSubmitting
     /\ app.isSubmitting => app'.inFlight <= app.inFlight
     /\ app'.isSubmitting <=> app'.inFlight = 1]_vars

C25_Witness ==
  /\ result.op = "submitFormSettled"
  /\ "threw" \in DOMAIN result.answer
  /\ ~app.isSubmitting
  /\ app.inFlight = 0
  /\ getEffectiveFormType(app) = "peticion"
  /\ submitGatesPass

\* C26: when submitForm answers success the form is reset to its initial
\* state; when it answers a failure or handleFormSubmit catches an exception
\* the data of the three forms, the order, the delivery email, the
\* use-previous-email flag and the prompt files stay as they were.
C26_ResetOnlyOnSuccess ==
  [][result'.op = "submitFormSettled" =>
       IF result'.success
         THEN /\ formData' = initialTransitoData
              /\ app'.tutelaData = initialTutelaData
              /\ app'.peticionData = initialPeticionData
              /\ app'.order = EmptyOrder
              /\ app'.deliveryEmail = Str(<<>>)
              /\ ~app'.usePreviousEmail
              /\ app'.promptFiles = EmptyObject
         ELSE /\ formData' = formData
              /\ app'.tutelaData = app.tutelaData
              /\ app'.peticionData = app.peticionData
              /\ app'.order = app.order
              /\ app'.deliveryEmail = app.deliveryEmail
              /\ app'.usePreviousEmail = app.usePreviousEmail
              /\ app'.promptFiles = app.promptFiles]_vars

C26_Witness ==
  /\ result.op = "submitFormSettled"
  /\ ~result.success
  /\ "threw" \notin DOMAIN result.answer
  /\ formData["procedureType"] = Str(Otro)
  /\ app.tutelaData.email = Str(ValidEmail)
  /\ app.order = BypassOrder
  /\ app.deliveryEmail = Str(ValidEmail)
  /\ app.usePreviousEmail
  /\ app.promptFiles = LoadedPromptFiles

\* the last check reported the order as processed, without bypass
orderIsProcessed ==
  /\ app.orderValidation # Null
  /\ app.orderValidation.isProcessed
  /\ ~app.orderValidation.allowBypass

\* C27: handleOrderLookup calls checkOrderProcessed before lookupOrder; once
\* the check has reported the order as processed lookupOrder has not been
\* called, the order is empty, the effective form type is null, neither a
\* form nor the footer is drawn and no submit can start; and isLoading is
\* false whenever no handleOrderLookup is running.
C27_ProcessedOrderReachesNoForm ==
  /\ app.calls \in {<<>>, <<"checkOrderProcessed">>,
                    <<"checkOrderProcessed", "lookupOrder">>}
  /\ orderIsProcessed =>
       /\ app.calls = <<"checkOrderProcessed">>
       /\ app.order = EmptyOrder
       /\ getEffectiveFormType(app) = NullFormType
       /\ ~footerRendered(app)
       /\ \A formType \in BypassFormTypes : ~formRendered(app, formType)
       /\ ~ENABLED clickSubmit
  /\ app.isLoading <=> app.lookup # "idle"

C27_Witness ==
  /\ orderIsProcessed
  /\ result.op = "handleOrderLookup"
  /\ result.toasts = <<"Esta orden ya fue procesada anteriormente">>
  /\ formData["notificationEmail"] = Str(ValidEmail)
  /\ ~app.isLoading

\* the step is one of handleOrderLookup: its start or one of its settles
lookupStep ==
  app'.lookup # app.lookup \/ result'.op = "handleOrderLookup"

\* the effect of useAutoFill has written the mock data over the transito data
autoFilledTransito ==
  /\ app'.autoFill
  /\ app'.orderLookupCompleted
  /\ getEffectiveFormType(app) # "transito"
  /\ getEffectiveFormType(app') = "transito"
  /\ formData' = fillFields(formData, mockTransitoData)

\* C30 as stated: the start of handleOrderLookup sets the tutela and peticion
\* data, the order, the order validation, the bypass form type and the prompt
\* files to their initial values; no step of the lookup changes the transito
\* data, which only an edit or the reset of a successful submission changes.
C30_LookupKeepsTransitoData ==
  [][/\ (result'.op = "handleOrderLookup"
         /\ app'.lookup = "checkOrderProcessed") =>
          /\ app'.tutelaData = initialTutelaData
          /\ app'.peticionData = initialPeticionData
          /\ app'.order = EmptyOrder
          /\ app'.orderValidation = Null
          /\ app'.bypassFormType = ""
          /\ app'.promptFiles = EmptyObject
     /\ lookupStep => formData' = formData
     /\ formData' # formData =>
          \/ result'.op = "none" /\ ~autoFilledTransito
          \/ /\ result'.op = "submitFormSettled" /\ result'.success
             /\ formData' = initialTransitoData
             /\ formDataKeys' = initialTransitoDataKeys
             /\ app'.tutelaData = initialTutelaData
             /\ app'.peticionData = initialPeticionData]_vars

\* C30: the start of handleOrderLookup sets the tutela and peticion data, the
\* order, the order validation, the bypass form type and the prompt files to
\* their initial values and leaves the transito data alone; with auto-fill
\* off no step of the lookup changes the transito data; with auto-fill on
\* the settle that makes transito the effective form type, of a lookup or of
\* the bypass selector, writes the mock data over them; apart from that only
\* an edit or the reset of a successful submission changes the transito data.
C30_LookupKeepsTransitoDataUnlessAutoFill ==
  [][/\ (result'.op = "handleOrderLookup"
         /\ app'.lookup = "checkOrderProcessed") =>
          /\ app'.tutelaData = initialTutelaData
          /\ app'.peticionData = initialPeticionData
          /\ app'.order = EmptyOrder
          /\ app'.orderValidation = Null
          /\ app'.bypassFormType = ""
          /\ app'.promptFiles = EmptyObject
          /\ formData' = formData
     /\ lookupStep => (formData' = formData \/ autoFilledTransito)
     /\ (lookupStep /\ ~app.autoFill) => formData' = formData
     /\ (app.autoFill /\ app'.orderLookupCompleted
         /\ getEffectiveFormType(app) # "transito"
         /\ getEffectiveFormType(app') = "transito") => autoFilledTransito
     /\ formData' # formData =>
          \/ result'.op = "none"
          \/ lookupStep /\ autoFilledTransito
          \/ /\ result'.op = "submitFormSettled" /\ result'.success
             /\ formData' = initialTransitoData
             /\ formDataKeys' = initialTransitoDataKeys
             /\ app'.tutelaData = initialTutelaData
             /\ app'.peticionData = initialPeticionData]_vars

C30_Witness ==
  /\ result.op = "handleOrderLookup"
  /\ result.toasts = <<"Orden encontrada y lista para procesar">>
  /\ ~app.autoFill
  /\ app.order = TransitoOrder
  /\ formData["notificationEmail"] = Str(ValidEmail)
  /\ formData["procedureType"] = Str(Otro)
  /\ app.tutelaData = initialTutelaData

=============================================================================
